---- MODULE Spec2Model ----
(***************************************************************************)
(* Invoice generator: the validation-and-aggregation pipeline.             *)
(*                                                                         *)
(*   utils/invoice_validator.py   InvoiceValidator  (row validator)        *)
(*   utils/invoice_processor.py   InvoiceProcessor  (aggregation engine)   *)
(*   main.py                      /validate and /generate-pdfs handlers    *)
(*                                                                         *)
(* Representation.  A table (pandas DataFrame) is a record                 *)
(*   [columns |-> set of column names, rows |-> sequence of rows],         *)
(* a row is a function from the table's columns to cells, and the row at   *)
(* position i has DataFrame index i - 1.  A cell of a text column is a     *)
(* string, or None for a missing cell.  A cell of a numeric column is a    *)
(* record [k |-> kind, v |-> value]:                                       *)
(*   "num"     a float, value v                                            *)
(*   "none"    a missing cell (None)                                       *)
(*   "numstr"  a string float() parses, such as "5.0", of value v          *)
(*   "curstr"  a string with a currency symbol or thousands separators,    *)
(*             such as "$1,234", of value v once they are removed          *)
(*   "sym"     the string "$"                                              *)
(*   "empty"   the string ""                                               *)
(*   "bad"     a string float() rejects, such as "abc"                     *)
(* Amounts are integers (exact arithmetic on the amounts of the model);    *)
(* the order count is kept in halves, so that v = 5 is 2.5 orders.         *)
(***************************************************************************)
EXTENDS Integers, Sequences, FiniteSets, TLC

VARIABLES
    df,           \* the table handed to the validator and the processor
    pc,           \* "loaded" -> "validated" -> "processed"; "pipeline" in the server
    passed,       \* validate_dataframe's first return value
    errors,       \* InvoiceValidator.errors
    warnings,     \* InvoiceValidator.warnings
    outcome,      \* how InvoiceProcessor(df).process_invoices() ended
    bill_owners,  \* its result, {'bill_owners': [...]}
    validation_store,  \* main.py: validation_id -> validation result and data
    now,               \* the clock, in seconds
    calls,             \* the /generate-pdfs calls in flight, each with its position
    output_dirs,       \* the validation_ids whose output directory exists
    invoice_df,   \* reconciliation: the transactional table
    master_df,    \* reconciliation: the master (reference) table
    report,       \* reconciliation: how the operation ended and what it returned
    recon_pc,     \* "loaded" -> the operation that ran
    owner_entries,   \* batch: the owner entries submitted
    batch_size,      \* batch: the size of a wave
    max_workers,     \* batch: the size of the worker pool
    entries,         \* batch: the state of each entry
    batch_start,     \* batch: the position of the first entry of the wave
    generated_files, \* batch: the paths accumulated
    batch_pc         \* batch: "idle", "running", "paused" or "returned"

vars == <<df, pc, passed, errors, warnings, outcome, bill_owners,
          validation_store, now, calls, output_dirs,
          invoice_df, master_df, report, recon_pc,
          owner_entries, batch_size, max_workers, entries, batch_start,
          generated_files, batch_pc>>

tableVars == <<df, pc, passed, errors, warnings, outcome, bill_owners>>

pipelineVars == <<validation_store, now, calls, output_dirs>>

reconVars == <<invoice_df, master_df, report, recon_pc>>

\* the variables of the other components
batchVars == <<owner_entries, batch_size, max_workers, entries, batch_start,
               generated_files, batch_pc>>

otherVars == <<reconVars, batchVars>>

None == "<None>"

----------------------------------------------------------------------------
(* Bounds of the model *)

MaxRows == 2

\* the clock runs from 0 to MaxClock
MaxClock == 1

\* the number of /generate-pdfs calls in flight at once
MaxCalls == 2

\* the number of rows of each table given to the reconciliation
MaxStores == 2

\* the number of owner entries of a batch, the largest wave and the largest pool
MaxEntries == 5

MaxBatchSize == 2

MaxWorkers == 2

----------------------------------------------------------------------------
(* Small helpers *)

Abs(x) == IF x < 0 THEN -x ELSE x

Range(s) == { s[i] : i \in DOMAIN s }

RECURSIVE ConcatAll(_)
ConcatAll(ss) == IF ss = <<>> THEN <<>> ELSE Head(ss) \o ConcatAll(Tail(ss))

RECURSIVE SumSeq(_)
SumSeq(s) == IF s = <<>> THEN 0 ELSE Head(s) + SumSeq(Tail(s))

RECURSIVE MaxSeq(_)
MaxSeq(s) ==
    IF Len(s) = 1 THEN Head(s)
    ELSE LET m == MaxSeq(Tail(s)) IN IF Head(s) > m THEN Head(s) ELSE m

\* pandas Series.unique(): the distinct values in order of first appearance
RECURSIVE Unique(_)
Unique(s) ==
    IF s = <<>> THEN <<>>
    ELSE LET front == Unique(SubSeq(s, 1, Len(s) - 1))
             last  == s[Len(s)]
         IN  IF last \in Range(front) THEN front ELSE Append(front, last)

NumCell(n) == [k |-> "num", v |-> n]

----------------------------------------------------------------------------
(* Python conversions on cells *)

\* pd.isna(value)
isna(cell) == cell.k = "none"

\* float(value): [ok |-> TRUE, v |-> the number], or ok = FALSE where Python
\* raises ValueError (a string that is no number) or TypeError (None)
float(cell) ==
    IF cell.k \in {"num", "numstr"} THEN [ok |-> TRUE, v |-> cell.v]
    ELSE [ok |-> FALSE, v |-> 0]

\* str(x).strip() == ''
IsBlankStr(s) == s \in {"", " "}

\* int(x) of a quantity kept in halves: truncation toward zero
int(halves) == IF halves >= 0 THEN halves \div 2 ELSE -((-halves) \div 2)

----------------------------------------------------------------------------
(* InvoiceValidator: configuration *)

\* 'required_columns', in dictionary order, each with its type entry
config_required_columns ==
    << [col |-> "BillOwnerName",                       type |-> "str"],
       [col |-> "Platform_x",                          type |-> "str"],
       [col |-> "Order Week",                          type |-> "str"],
       [col |-> "Sum of Order Count",                  type |-> "(int, float)"],
       [col |-> "Sum of Total payout",                 type |-> "float"],
       [col |-> "Sum of Sales (excl. tax)",            type |-> "float"],
       [col |-> "Sum of Passed on Tax",                type |-> "float"],
       [col |-> "Sum of Marketplace Facilitator Tax",  type |-> "float"],
       [col |-> "Additional Fees",                     type |-> "float"],
       [col |-> "Final Net Payout with Agg Fee",       type |-> "float"] >>

valid_platforms == {"Grubhub", "DoorDash", "UberEats"}

suspicious_payout_threshold == 1000000

negative_order_count_threshold == 0

\* 'maximum_payout_percentage': 1.1, as the fraction 11 / 10
maximum_payout_percentage_num == 11

maximum_payout_percentage_den == 10

ValidationError(error_type, row_index, field, severity, owner) ==
    [error_type |-> error_type, row_index |-> row_index, field |-> field,
     severity |-> severity, owner |-> owner]

----------------------------------------------------------------------------
(* InvoiceValidator: the checks *)

\* [col for col in required_columns if col not in df.columns]
_check_missing_columns(d) ==
    SelectSeq([i \in DOMAIN config_required_columns |-> config_required_columns[i].col],
              LAMBDA col : col \notin d.columns)

\* [field for field in required_columns if required_columns[field] in (int, float)]:
\* the entry (int, float) of 'Sum of Order Count' is a tuple, equal to neither
\* int nor float
numeric_fields ==
    LET kept == SelectSeq(config_required_columns,
                          LAMBDA e : e.type \in {"int", "float"})
    IN  [i \in DOMAIN kept |-> kept[i].col]

\* one pass of the loop of _validate_numeric_fields
NumericFieldIssues(row, index, field) ==
    LET value == row[field]
        f     == float(value)
        null  == IF isna(value)
                 THEN << ValidationError("null_value", index, field, "error", None) >>
                 ELSE << >>
        neg   == IF field = "Sum of Order Count" /\ f.v < negative_order_count_threshold
                 THEN << ValidationError("negative_orders", index, field, "error", None) >>
                 ELSE << >>
        susp  == IF field = "Sum of Total payout" /\ Abs(f.v) > suspicious_payout_threshold
                 THEN << ValidationError("suspicious_amount", index, field, "warning", None) >>
                 ELSE << >>
        bad   == IF field # "Order Week"
                 THEN << ValidationError("invalid_number", index, field, "error", None) >>
                 ELSE << >>
    IN  null \o (IF f.ok THEN neg \o susp ELSE bad)

_validate_numeric_fields(row, index) ==
    ConcatAll([i \in DOMAIN numeric_fields |->
                  NumericFieldIssues(row, index, numeric_fields[i])])

\* the issues of one row, in the order they are appended
_validate_row(row, index) ==
    LET owner == IF row["BillOwnerName"] = None \/ IsBlankStr(row["BillOwnerName"])
                 THEN << ValidationError("invalid_owner", index, "BillOwnerName", "error", None) >>
                 ELSE << >>
        plat  == IF row["Platform_x"] \notin valid_platforms
                 THEN << ValidationError("invalid_platform", index, "Platform_x", "warning", None) >>
                 ELSE << >>
    IN  owner \o plat \o _validate_numeric_fields(row, index)

\* owner_data[col].sum() for owner_data = df[df['BillOwnerName'] == owner];
\* a comparison with a missing value is False, so None selects no row
OwnerSum(d, owner, col) ==
    SumSeq([i \in DOMAIN d.rows |->
               IF owner # None /\ d.rows[i]["BillOwnerName"] = owner
               THEN d.rows[i][col].v ELSE 0])

\* mutant: a difference equal to the bound is reported too
TotalsIssue_Strict(d, owner) ==
    LET total_payout     == OwnerSum(d, owner, "Sum of Total payout")
        final_net_payout == OwnerSum(d, owner, "Final Net Payout with Agg Fee")
    IN  IF ~(Abs(total_payout - final_net_payout) * maximum_payout_percentage_den
               < total_payout * maximum_payout_percentage_num)
        THEN << ValidationError("total_mismatch", -1, "total_validation", "warning", owner) >>
        ELSE << >>

TotalsIssue(d, owner) ==
    LET total_payout     == OwnerSum(d, owner, "Sum of Total payout")
        final_net_payout == OwnerSum(d, owner, "Final Net Payout with Agg Fee")
    IN  IF ~(Abs(total_payout - final_net_payout) * maximum_payout_percentage_den
               <= total_payout * maximum_payout_percentage_num)
        THEN << ValidationError("total_mismatch", -1, "total_validation", "warning", owner) >>
        ELSE << >>

_validate_totals(d) ==
    LET owners == Unique([i \in DOMAIN d.rows |-> d.rows[i]["BillOwnerName"]])
    IN  ConcatAll([i \in DOMAIN owners |-> TotalsIssue(d, owners[i])])

IsError(e) == e.severity = "error"

IsWarning(e) == e.severity = "warning"

\* mutant: one issue for each missing column
MissingColumnsIssues_PerColumn(missing_columns) ==
    [i \in DOMAIN missing_columns |->
        ValidationError("missing_columns", -1, missing_columns[i], "error", None)]

\* the issue appended for missing columns
MissingColumnsIssues(missing_columns) ==
    << ValidationError("missing_columns", -1, "", "error", None) >>

\* mutant: a warning blocks like an error
validate_dataframe_WarningsBlock(d) ==
    LET missing_columns == _check_missing_columns(d)
    IN  IF missing_columns # << >>
        THEN [passed   |-> FALSE,
              errors   |-> MissingColumnsIssues(missing_columns),
              warnings |-> << >>]
        ELSE LET issues == ConcatAll([i \in DOMAIN d.rows |->
                                         _validate_row(d.rows[i], i - 1)])
                           \o _validate_totals(d)
             IN  [passed   |-> Len(issues) = 0,
                  errors   |-> SelectSeq(issues, IsError),
                  warnings |-> SelectSeq(issues, IsWarning)]

\* validate_dataframe(df): the return value and the lists it leaves in the
\* validator
validate_dataframe(d) ==
    LET missing_columns == _check_missing_columns(d)
    IN  IF missing_columns # << >>
        THEN [passed   |-> FALSE,
              errors   |-> MissingColumnsIssues(missing_columns),
              warnings |-> << >>]
        ELSE LET issues == ConcatAll([i \in DOMAIN d.rows |->
                                         _validate_row(d.rows[i], i - 1)])
                           \o _validate_totals(d)
                 errs   == SelectSeq(issues, IsError)
             IN  [passed   |-> Len(errs) = 0,
                  errors   |-> errs,
                  warnings |-> SelectSeq(issues, IsWarning)]

----------------------------------------------------------------------------
(* InvoiceProcessor: normalisation of the monetary columns *)

\* mutant: only strings are converted, a number is returned as 0.0
clean_currency_StringsOnly(x) ==
    IF isna(x) THEN [ok |-> TRUE, v |-> 0]
    ELSE IF x.k \in {"numstr", "curstr"} THEN [ok |-> TRUE, v |-> x.v]
    ELSE IF x.k \in {"sym", "empty"} THEN [ok |-> TRUE, v |-> 0]
    ELSE IF x.k = "bad" THEN [ok |-> FALSE, v |-> 0]
    ELSE [ok |-> TRUE, v |-> 0]

\* clean_currency(x): [ok |-> TRUE, v |-> the float], or ok = FALSE where
\* float() raises ValueError
clean_currency(x) ==
    IF isna(x) THEN [ok |-> TRUE, v |-> 0]
    ELSE IF x.k \in {"numstr", "curstr"} THEN [ok |-> TRUE, v |-> x.v]
    ELSE IF x.k \in {"sym", "empty"} THEN [ok |-> TRUE, v |-> 0]
    ELSE IF x.k = "bad" THEN [ok |-> FALSE, v |-> 0]
    ELSE [ok |-> TRUE, v |-> x.v]

monetary_columns ==
    << "Additional Fees", "Sum of Total payout", "Final Net Payout with Agg Fee",
       "Sum of Sales (excl. tax)", "Sum of Passed on Tax",
       "Sum of Marketplace Facilitator Tax", "Sum of Marketplace fee",
       "Sum of Promotions on items", "Refund", "delivery fee", "Other 3P fee",
       "adjustment", "store_payment", "tips", "ad_fee" >>

\* the monetary columns that are columns of the table
MonetaryColumnsOf(d) == Range(monetary_columns) \cap d.columns

\* clean_monetary_columns raises when clean_currency raises on one cell
CleanRaises(d) ==
    \E i \in DOMAIN d.rows : \E c \in MonetaryColumnsOf(d) :
        ~clean_currency(d.rows[i][c]).ok

\* the table after clean_monetary_columns
clean_monetary_columns(d) ==
    [d EXCEPT !.rows =
        [i \in DOMAIN d.rows |->
            [c \in d.columns |->
                IF c \in MonetaryColumnsOf(d)
                THEN NumCell(clean_currency(d.rows[i][c]).v)
                ELSE d.rows[i][c]]]]

----------------------------------------------------------------------------
(* InvoiceProcessor: its own validation *)

required_columns ==
    << [col |-> "BillOwnerName",                       type |-> "str"],
       [col |-> "Order Week",                          type |-> "str"],
       [col |-> "Restaurant",                          type |-> "str"],
       [col |-> "Platform_x",                          type |-> "str"],
       [col |-> "Sum of Order Count",                  type |-> "float"],
       [col |-> "Sum of Total payout",                 type |-> "float"],
       [col |-> "Final Net Payout with Agg Fee",       type |-> "float"],
       [col |-> "Sum of Sales (excl. tax)",            type |-> "float"],
       [col |-> "Sum of Passed on Tax",                type |-> "float"],
       [col |-> "Sum of Marketplace Facilitator Tax",  type |-> "float"],
       [col |-> "Additional Fees",                     type |-> "float"],
       [col |-> "ad_fee",                              type |-> "float"] >>

processor_suspicious_payout == 10000

\* one column of _validate_data_types: "ok", "error" (an error is appended) or
\* "raise" (float(x) raises on a cell).  The cells of a str column are strings
\* or missing, and missing cells are dropped before the test.
DataTypeCheck(d, e) ==
    IF e.type = "str" THEN "ok"
    ELSE IF \E i \in DOMAIN d.rows :
                LET x == d.rows[i][e.col]
                IN  ~isna(x) /\ x.k # "num" /\ ~float(x).ok
         THEN "raise"
         ELSE "ok"

_validate_data_types(d) ==
    [i \in DOMAIN required_columns |-> DataTypeCheck(d, required_columns[i])]

\* mutant: negative order counts are not looked for
_validate_values_NoNegative(d) ==
    [errors   |-> << >>,
     warnings |-> IF \E i \in DOMAIN d.rows : d.rows[i]["Platform_x"] \notin valid_platforms
                  THEN << "Invalid platform names found" >> ELSE << >>]

\* the errors and warnings of _validate_values
_validate_values(d) ==
    [errors   |-> IF \E i \in DOMAIN d.rows : d.rows[i]["Sum of Order Count"].v < 0
                  THEN << "Negative order counts found" >> ELSE << >>,
     warnings |-> (IF \E i \in DOMAIN d.rows : d.rows[i]["Platform_x"] \notin valid_platforms
                   THEN << "Invalid platform names found" >> ELSE << >>)
                  \o
                  (IF \E i \in DOMAIN d.rows :
                         d.rows[i]["Sum of Total payout"].v > processor_suspicious_payout
                   THEN << "Unusually large payout amounts found" >> ELSE << >>)]

\* InvoiceProcessor.validate_data: "True", "False", or "raise"
validate_data(d) ==
    LET missing_columns == SelectSeq(required_columns, LAMBDA e : e.col \notin d.columns)
    IN  IF missing_columns # << >> THEN "False"
        ELSE LET types == _validate_data_types(d)
             IN  IF "raise" \in Range(types) THEN "raise"
                 ELSE IF "error" \in Range(types) \/ _validate_values(d).errors # << >>
                      THEN "False"
                      ELSE "True"

----------------------------------------------------------------------------
(* InvoiceProcessor: grouping *)

\* the strings of the model in Python's order of str
StringOrder ==
    << "", " ", "A", "B", "DoorDash", "Grubhub", "Other", "R1", "R2", "UberEats",
       "W1", "W2" >>

Rank(s) == CHOOSE i \in DOMAIN StringOrder : StringOrder[i] = s

\* the order of tuples (owner, week)
PairLess(p, q) ==
    \/ Rank(p[1]) < Rank(q[1])
    \/ p[1] = q[1] /\ Rank(p[2]) < Rank(q[2])

\* DataFrame.groupby sorts the group keys (sort=True)
RECURSIVE SortStrings(_)
SortStrings(S) ==
    IF S = {} THEN << >>
    ELSE LET m == CHOOSE x \in S : \A y \in S : Rank(x) <= Rank(y)
         IN  << m >> \o SortStrings(S \ {m})

\* mutant: the group keys are sorted in descending order
RECURSIVE SortPairs_Descending(_)
SortPairs_Descending(S) ==
    IF S = {} THEN << >>
    ELSE LET m == CHOOSE x \in S : \A y \in S : x = y \/ PairLess(y, x)
         IN  << m >> \o SortPairs_Descending(S \ {m})

RECURSIVE SortPairs(_)
SortPairs(S) ==
    IF S = {} THEN << >>
    ELSE LET m == CHOOSE x \in S : \A y \in S : x = y \/ PairLess(x, y)
         IN  << m >> \o SortPairs(S \ {m})

ColSum(rows, col) == SumSeq([i \in DOMAIN rows |-> rows[i][col].v])

ColMax(rows, col) == MaxSeq([i \in DOMAIN rows |-> rows[i][col].v])

\* groupby drops the rows whose key is missing (dropna=True)
OwnerGroupKeys(d) ==
    { << d.rows[i]["BillOwnerName"], d.rows[i]["Order Week"] >> :
        i \in { j \in DOMAIN d.rows : /\ d.rows[j]["BillOwnerName"] # None
                                      /\ d.rows[j]["Order Week"] # None } }

owner_groups(d) == SortPairs(OwnerGroupKeys(d))

\* mutant: the rows of all the periods of the owner are selected
OwnerData_ByOwnerOnly(d, key) ==
    SelectSeq(d.rows, LAMBDA r : r["BillOwnerName"] = key[1] /\ r["Order Week"] # None)

OwnerData(d, key) ==
    SelectSeq(d.rows, LAMBDA r : r["BillOwnerName"] = key[1] /\ r["Order Week"] = key[2])

RestaurantKeys(rows) == { rows[i]["Restaurant"] : i \in DOMAIN rows } \ {None}

PlatformKeys(rows) == { rows[i]["Platform_x"] : i \in DOMAIN rows } \ {None}

\* mutant: the order count is truncated row by row
platform_info_IntPerRow(plat_data, platform) ==
    [platform          |-> platform,
     orders            |-> SumSeq([i \in DOMAIN plat_data |->
                                     int(plat_data[i]["Sum of Order Count"].v)]),
     gross_pay         |-> ColSum(plat_data, "Sum of Total payout"),
     taxes_transferred |-> ColSum(plat_data, "Sum of Passed on Tax"),
     taxes_platform    |-> ColSum(plat_data, "Sum of Marketplace Facilitator Tax"),
     subtotal          |-> ColSum(plat_data, "Sum of Sales (excl. tax)"),
     error_charges     |-> 0,
     net_pay           |-> ColSum(plat_data, "Final Net Payout with Agg Fee"),
     marketplace_fee   |-> ColSum(plat_data, "Sum of Marketplace fee")]

\* the body of the loop over rest_data.groupby('Platform_x')
platform_info(plat_data, platform) ==
    [platform          |-> platform,
     orders            |-> int(ColSum(plat_data, "Sum of Order Count")),
     gross_pay         |-> ColSum(plat_data, "Sum of Total payout"),
     taxes_transferred |-> ColSum(plat_data, "Sum of Passed on Tax"),
     taxes_platform    |-> ColSum(plat_data, "Sum of Marketplace Facilitator Tax"),
     subtotal          |-> ColSum(plat_data, "Sum of Sales (excl. tax)"),
     error_charges     |-> 0,
     net_pay           |-> ColSum(plat_data, "Final Net Payout with Agg Fee"),
     marketplace_fee   |-> ColSum(plat_data, "Sum of Marketplace fee")]

restaurant_info(rest_data, restaurant) ==
    LET platforms == SortStrings(PlatformKeys(rest_data))
    IN  [name      |-> restaurant,
         platforms |-> [i \in DOMAIN platforms |->
                          platform_info(SelectSeq(rest_data,
                                            LAMBDA r : r["Platform_x"] = platforms[i]),
                                        platforms[i])]]

\* mutant: a restaurant without platform group is left out
_process_restaurant_breakdown_DropEmpty(owner_data) ==
    LET restaurants == SortStrings(RestaurantKeys(owner_data))
        all == [i \in DOMAIN restaurants |->
                   restaurant_info(SelectSeq(owner_data,
                                       LAMBDA r : r["Restaurant"] = restaurants[i]),
                                   restaurants[i])]
    IN  SelectSeq(all, LAMBDA e : e.platforms # << >>)

_process_restaurant_breakdown(owner_data) ==
    LET restaurants == SortStrings(RestaurantKeys(owner_data))
    IN  [i \in DOMAIN restaurants |->
            restaurant_info(SelectSeq(owner_data,
                                LAMBDA r : r["Restaurant"] = restaurants[i]),
                            restaurants[i])]

\* mutant: the fees of the group are added up
aggregator_fee_Sum(owner_data) == ColSum(owner_data, "Additional Fees")

\* the aggregator fee of an owner group
aggregator_fee(owner_data) == ColMax(owner_data, "Additional Fees")

owner_info(owner_data, key) ==
    [name        |-> key[1],
     period      |-> key[2],
     restaurants |-> _process_restaurant_breakdown(owner_data),
     financials  |-> [total_payout     |-> ColSum(owner_data, "Sum of Total payout"),
                      final_net_payout |-> ColSum(owner_data, "Final Net Payout with Agg Fee"),
                      ad_fees          |-> ColSum(owner_data, "ad_fee"),
                      aggregator_fee   |-> aggregator_fee(owner_data)]]

\* platform_info reads 'Sum of Marketplace fee', a column neither validation
\* requires: a KeyError as soon as one platform group exists
BreakdownRaises(d) ==
    /\ "Sum of Marketplace fee" \notin d.columns
    /\ \E i \in DOMAIN d.rows : /\ d.rows[i]["BillOwnerName"] # None
                                /\ d.rows[i]["Order Week"] # None
                                /\ d.rows[i]["Restaurant"] # None
                                /\ d.rows[i]["Platform_x"] # None

\* InvoiceProcessor(df).process_invoices()
process_invoices(raw) ==
    IF CleanRaises(raw)
    THEN [outcome |-> "ValueError", bill_owners |-> << >>]
    ELSE LET d     == clean_monetary_columns(raw)
             valid == validate_data(d)
         IN  IF valid = "raise"
             THEN [outcome |-> "ValueError", bill_owners |-> << >>]
             ELSE IF valid = "False"
             THEN [outcome |-> "Data validation failed", bill_owners |-> << >>]
             ELSE IF BreakdownRaises(d)
             THEN [outcome |-> "KeyError", bill_owners |-> << >>]
             ELSE LET keys == owner_groups(d)
                  IN  [outcome     |-> "tree",
                       bill_owners |-> [i \in DOMAIN keys |->
                                          owner_info(OwnerData(d, keys[i]), keys[i])]]

----------------------------------------------------------------------------
(* PDFInvoiceGenerator: the breakdown table of a document *)

\* a table cell showing a dash: "$ -" for an amount, '-' for a count
Dash == [dash |-> TRUE, negative |-> FALSE, amount |-> 0]

\* format_currency(amount): "$ -" for 0, otherwise the absolute amount with a
\* leading minus sign when negative
format_currency(amount) ==
    IF amount = 0 THEN Dash
    ELSE [dash |-> FALSE, negative |-> amount < 0, amount |-> Abs(amount)]

\* platform['orders'] or '-'
OrdersCell(orders) == IF orders = 0 THEN Dash ELSE format_currency(orders)

\* the rows of one restaurant; current_restaurant is the name last written
RestaurantRows(restaurant, current_restaurant) ==
    IF restaurant.platforms = << >>
    THEN << [name |-> restaurant.name, platform |-> "-", orders |-> Dash,
             gross_pay |-> Dash, taxes_transferred |-> Dash, taxes_platform |-> Dash,
             subtotal |-> Dash, error_charges |-> Dash, net_pay |-> Dash] >>
    ELSE [x \in DOMAIN restaurant.platforms |->
            LET platform == restaurant.platforms[x]
            IN  [name |-> IF x = 1 /\ current_restaurant # restaurant.name
                          THEN restaurant.name ELSE "",
                 platform          |-> platform.platform,
                 orders            |-> OrdersCell(platform.orders),
                 gross_pay         |-> format_currency(platform.gross_pay),
                 taxes_transferred |-> format_currency(platform.taxes_transferred),
                 taxes_platform    |-> format_currency(platform.taxes_platform),
                 subtotal          |-> format_currency(platform.subtotal),
                 error_charges     |-> format_currency(platform.error_charges),
                 net_pay           |-> format_currency(platform.net_pay)]]

\* table_data before the totals row
RECURSIVE BreakdownRows(_, _)
BreakdownRows(restaurants, current_restaurant) ==
    IF restaurants = << >> THEN << >>
    ELSE LET restaurant == Head(restaurants)
         IN  RestaurantRows(restaurant, current_restaurant)
             \o BreakdownRows(Tail(restaurants),
                              IF restaurant.platforms = << >> THEN current_restaurant
                              ELSE restaurant.name)

\* calculate_totals: the sums over the platforms of all the restaurants
calculate_totals(restaurants) ==
    LET platforms == ConcatAll([i \in DOMAIN restaurants |-> restaurants[i].platforms])
        total(field) == SumSeq([x \in DOMAIN platforms |-> platforms[x][field]])
    IN  [order_count |-> total("orders"), gross_pay |-> total("gross_pay"),
         taxes_transferred |-> total("taxes_transferred"),
         taxes_platform |-> total("taxes_platform"), subtotal |-> total("subtotal"),
         error_charges |-> total("error_charges"), net_pay |-> total("net_pay")]

\* prepare_restaurant_breakdown: the data rows and the totals row (the header
\* row is constant)
prepare_restaurant_breakdown(restaurants) ==
    LET totals == calculate_totals(restaurants)
    IN  [rows   |-> BreakdownRows(restaurants, None),
         totals |-> [name |-> "Grand Total", platform |-> "",
                     orders            |-> totals.order_count,
                     gross_pay         |-> format_currency(totals.gross_pay),
                     taxes_transferred |-> format_currency(totals.taxes_transferred),
                     taxes_platform    |-> format_currency(totals.taxes_platform),
                     subtotal          |-> format_currency(totals.subtotal),
                     error_charges     |-> format_currency(totals.error_charges),
                     net_pay           |-> format_currency(totals.net_pay)]]

----------------------------------------------------------------------------
(* The tables of the model.  GoogleSheetsHelper.get_sheet_data returns the     *)
(* columns of its numeric_columns list as floats with no missing value         *)
(* (pd.to_numeric(...).fillna(0)); 'Additional Fees' is not in that list and   *)
(* keeps the sheet's raw text, and a text cell is a string or None.            *)

AllColumns ==
    { "BillOwnerName", "Order Week", "Restaurant", "Platform_x",
      "Sum of Order Count", "Sum of Total payout", "Sum of Sales (excl. tax)",
      "Sum of Passed on Tax", "Sum of Marketplace Facilitator Tax",
      "Sum of Marketplace fee", "Additional Fees", "ad_fee",
      "Final Net Payout with Agg Fee" }

ColumnSets ==
    { AllColumns,
      AllColumns \ {"Additional Fees"},
      AllColumns \ {"Order Week", "Additional Fees"},
      AllColumns \ {"Restaurant"},
      AllColumns \ {"ad_fee"},
      AllColumns \ {"Sum of Marketplace fee"} }

Row(key, p) ==
    [c \in AllColumns |->
        CASE c = "BillOwnerName"                      -> key[1]
          [] c = "Order Week"                         -> key[2]
          [] c = "Restaurant"                         -> key[3]
          [] c = "Platform_x"                         -> key[4]
          [] c = "Sum of Order Count"                 -> NumCell(p.orders)
          [] c = "Sum of Total payout"                -> NumCell(p.payout)
          [] c = "Sum of Sales (excl. tax)"           -> NumCell(p.sales)
          [] c = "Sum of Passed on Tax"               -> NumCell(p.passed_tax)
          [] c = "Sum of Marketplace Facilitator Tax" -> NumCell(p.mf_tax)
          [] c = "Sum of Marketplace fee"             -> NumCell(p.mkt_fee)
          [] c = "Additional Fees"                    -> p.add_fee
          [] c = "ad_fee"                             -> NumCell(p.ad_fee)
          [] c = "Final Net Payout with Agg Fee"      -> NumCell(p.net)]

\* (owner, period, restaurant, platform)
RegularKey == << "A", "W1", "R1", "DoorDash" >>

Keys ==
    { RegularKey,
      << "A", "W1", "R1", "Grubhub" >>,
      << "A", "W1", "R2", "DoorDash" >>,
      << "A", "W2", "R1", "DoorDash" >>,
      << "B", "W1", "R1", "DoorDash" >>,
      << "A", "W1", "R1", "Other" >>,
      << " ", "W1", "R1", "DoorDash" >> }

\* keys with a missing cell
NullKeys ==
    { << None, "W1", "R1", "DoorDash" >>,
      << "A", None, "R1", "DoorDash" >>,
      << "A", "W1", None, "DoorDash" >>,
      << "A", "W1", "R1", None >> }

\* 2 orders, payout 20.0, net 18.0, additional fee "5"
Regular ==
    [orders |-> 4, payout |-> 20, sales |-> 15, passed_tax |-> 2, mf_tax |-> 1,
     mkt_fee |-> 3, add_fee |-> [k |-> "numstr", v |-> 5], ad_fee |-> 4, net |-> 18]

\* 2.5 orders, payout 30.0, net 27.0, additional fee "7"
Second ==
    [orders |-> 5, payout |-> 30, sales |-> 25, passed_tax |-> 3, mf_tax |-> 2,
     mkt_fee |-> 6, add_fee |-> [k |-> "numstr", v |-> 7], ad_fee |-> 1, net |-> 27]

Irregular ==
    { [Regular EXCEPT !.orders = -2],
      [Regular EXCEPT !.add_fee = [k |-> "none", v |-> 0]],
      [Regular EXCEPT !.add_fee = [k |-> "bad", v |-> 0]],
      [Regular EXCEPT !.add_fee = [k |-> "curstr", v |-> 1234]],
      [Regular EXCEPT !.add_fee = [k |-> "empty", v |-> 0]],
      [Regular EXCEPT !.payout = 2000000, !.net = 1900000],
      [Regular EXCEPT !.payout = 10, !.net = 40],
      [Regular EXCEPT !.payout = 10, !.net = 21],
      [Regular EXCEPT !.payout = -10, !.net = -9] }

Rows ==
    { Row(key, p) : key \in Keys, p \in {Regular, Second} }
    \cup { Row(key, Regular) : key \in NullKeys }
    \cup { Row(RegularKey, p) : p \in Irregular }
    \cup { Row(<< " ", "W1", "R1", "DoorDash" >>,
               [Regular EXCEPT !.add_fee = [k |-> "none", v |-> 0]]) }

Restrict(row, columns) == [c \in columns |-> row[c]]

Tables ==
    { [columns |-> cols, rows |-> [i \in DOMAIN rs |-> Restrict(rs[i], cols)]] :
        cols \in ColumnSets,
        rs \in UNION { [1..n -> Rows] : n \in 0..MaxRows } }

----------------------------------------------------------------------------
(* The validator and the processor applied to a table *)

\* the identifiers strftime("%Y%m%d_%H%M%S") can give: one for each second
ValidationIds == 0..MaxClock

\* no entry under a validation_id
Absent ==
    [present |-> FALSE, passed |-> FALSE, data_none |-> TRUE, bill_owners |-> << >>,
     max_pdfs |-> -1]

\* a call slot with no call in flight
IdleCall == [pc |-> "idle", validation_id |-> 0, bill_owners |-> << >>]

\* no reconciliation is under way
NoReport == [outcome |-> "none"]

ReconIdle ==
    /\ invoice_df = << >>
    /\ master_df = << >>
    /\ report = NoReport
    /\ recon_pc = "idle"

\* the other components are idle
BatchIdle ==
    /\ owner_entries = << >>
    /\ batch_size = 1
    /\ max_workers = 1
    /\ entries = << >>
    /\ batch_start = 1
    /\ generated_files = << >>
    /\ batch_pc = "idle"

OthersIdle == ReconIdle /\ BatchIdle

\* main.py after import: an empty store, no call
InitPipeline ==
    /\ validation_store = [v \in ValidationIds |-> Absent]
    /\ now = 0
    /\ calls = [c \in 1..MaxCalls |-> IdleCall]
    /\ output_dirs = {}

Init ==
    /\ df \in Tables
    /\ pc = "loaded"
    /\ passed = FALSE
    /\ errors = << >>
    /\ warnings = << >>
    /\ outcome = "none"
    /\ bill_owners = << >>
    /\ InitPipeline
    /\ OthersIdle

\* validator = InvoiceValidator(); validator.validate_dataframe(df)
ValidateDataframe ==
    /\ pc = "loaded"
    /\ LET r == validate_dataframe(df)
       IN  /\ passed' = r.passed
           /\ errors' = r.errors
           /\ warnings' = r.warnings
    /\ pc' = "validated"
    /\ UNCHANGED <<df, outcome, bill_owners, pipelineVars, otherVars>>

\* processor = InvoiceProcessor(df); processor.process_invoices()
ProcessInvoices ==
    /\ pc = "validated"
    /\ LET r == process_invoices(df)
       IN  /\ outcome' = r.outcome
           /\ bill_owners' = r.bill_owners
    /\ pc' = "processed"
    /\ UNCHANGED <<df, passed, errors, warnings, pipelineVars, otherVars>>

Next == ValidateDataframe \/ ProcessInvoices

Spec == Init /\ [][Next]_vars

----------------------------------------------------------------------------
(* Properties of the validator and the processor *)

RequiredColumnNames ==
    { "BillOwnerName", "Platform_x", "Order Week", "Sum of Order Count",
      "Sum of Total payout", "Sum of Sales (excl. tax)", "Sum of Passed on Tax",
      "Sum of Marketplace Facilitator Tax", "Additional Fees",
      "Final Net Payout with Agg Fee" }

HasRequiredColumns == RequiredColumnNames \subseteq df.columns

Validated == pc \in {"validated", "processed"}

RowIndices == DOMAIN df.rows

RECURSIVE IndexSum(_, _)
IndexSum(I, col) ==
    IF I = {} THEN 0
    ELSE LET i == CHOOSE x \in I : TRUE
         IN  df.rows[i][col].v + IndexSum(I \ {i}, col)

\* C1: for a table that lacks a required column, validate records exactly one
\* issue, an error of kind missing_columns, returns passed = False and records
\* no warning, whatever the rows hold.
C1_MissingColumnsShortCircuit ==
    (Validated /\ ~HasRequiredColumns) =>
        /\ Len(errors) = 1
        /\ errors[1].error_type = "missing_columns"
        /\ errors[1].severity = "error"
        /\ passed = FALSE
        /\ warnings = << >>

\* a table without two required columns whose two rows would each raise row
\* issues (a blank owner with no fee, an unknown platform) has been validated
C1_Witness ==
    /\ pc = "validated"
    /\ {"Order Week", "Additional Fees"} \cap df.columns = {}
    /\ Len(df.rows) = 2
    /\ df.rows[1]["BillOwnerName"] = " "
    /\ df.rows[2]["Platform_x"] = "Other"
    /\ Len(errors) = 1
    /\ ~passed

WarningKinds == {"invalid_platform", "suspicious_amount", "total_mismatch"}

\* C2: validate returns passed = True exactly when no error was recorded;
\* warnings (invalid_platform, suspicious_amount, total_mismatch) are recorded
\* as warnings only and never block.
C2_PassedIffNoErrors ==
    Validated =>
        /\ passed <=> (Len(errors) = 0)
        /\ \A i \in DOMAIN errors : errors[i].severity = "error"
        /\ \A i \in DOMAIN warnings :
              /\ warnings[i].severity = "warning"
              /\ warnings[i].error_type \in WarningKinds
        /\ \A i \in DOMAIN errors : errors[i].error_type \notin WarningKinds

\* a table with warnings of two kinds and no error was returned as passed
C2_Witness ==
    /\ pc = "validated"
    /\ passed
    /\ Len(errors) = 0
    /\ Cardinality({ warnings[i].error_type : i \in DOMAIN warnings }) >= 2

\* the row violations of the specification's taxonomy (section 7)
BlankOwner(i) == df.rows[i]["BillOwnerName"] \in {None, "", " "}

NegativeOrders(i) == df.rows[i]["Sum of Order Count"].v < 0

NullFee(i) == df.rows[i]["Additional Fees"].k = "none"

NonNumericFee(i) ==
    df.rows[i]["Additional Fees"].k \in {"none", "curstr", "sym", "empty", "bad"}

RowHasError(i) ==
    BlankOwner(i) \/ NegativeOrders(i) \/ NullFee(i) \/ NonNumericFee(i)

ErrorAt(i, kind) ==
    \E j \in DOMAIN errors :
        errors[j].row_index = i - 1 /\ errors[j].error_type = kind

\* C3 (as claimed): every violation of every row is reported: k rows with a
\* row error each give at least k distinct errors, and a row with a blank
\* owner and a null numeric field gets an issue for each.
C3_EveryRowErrorReported ==
    (Validated /\ HasRequiredColumns) =>
        /\ \A i \in RowIndices : RowHasError(i) => \E j \in DOMAIN errors :
                                                      errors[j].row_index = i - 1
        /\ Cardinality(Range(errors))
              >= Cardinality({ i \in RowIndices : RowHasError(i) })
        /\ \A i \in RowIndices :
              (BlankOwner(i) /\ NullFee(i)) =>
                  ErrorAt(i, "invalid_owner") /\ ErrorAt(i, "null_value")

\* C4 (as claimed): a row with a negative order count gets an error
\* negative_orders and the table does not pass.
C4_NegativeOrdersReported ==
    (Validated /\ HasRequiredColumns) =>
        \A i \in RowIndices :
            NegativeOrders(i) => (ErrorAt(i, "negative_orders") /\ ~passed)

\* the owners of the table: the values of the owner column (a missing cell is
\* no owner)
Owners == { df.rows[i]["BillOwnerName"] : i \in RowIndices } \ {None}

OwnerRows(owner) == { i \in RowIndices : df.rows[i]["BillOwnerName"] = owner }

TotalMismatchFor(owner) ==
    { j \in DOMAIN warnings : /\ warnings[j].error_type = "total_mismatch"
                              /\ warnings[j].owner = owner }

ExceedsBound(owner) ==
    LET tp == IndexSum(OwnerRows(owner), "Sum of Total payout")
        fn == IndexSum(OwnerRows(owner), "Final Net Payout with Agg Fee")
    IN  10 * Abs(tp - fn) > 11 * tp

Processed == pc = "processed"

ProcessorRejects ==
    \/ "Restaurant" \notin df.columns
    \/ "ad_fee" \notin df.columns
    \/ \E i \in RowIndices : NegativeOrders(i)

KeyOf(i) == << df.rows[i]["BillOwnerName"], df.rows[i]["Order Week"] >>

HasKey(i) == None \notin Range(KeyOf(i))

RowKeys == { KeyOf(i) : i \in { j \in RowIndices : HasKey(j) } }

KeyRows(key) == { i \in RowIndices : KeyOf(i) = key }

Nodes == DOMAIN bill_owners

NodeKey(n) == << bill_owners[n].name, bill_owners[n].period >>

Aggregated == Processed /\ passed /\ outcome = "tree"

\* C8: the output has exactly one OwnerPeriod node for each (owner, period) key
\* of the rows, whose total_payout, final_net_payout and ad_fees are the sums of
\* their columns over exactly the rows with that key.
C8_OneNodePerKeyWithSums ==
    Aggregated =>
        /\ { NodeKey(n) : n \in Nodes } = RowKeys
        /\ Len(bill_owners) = Cardinality(RowKeys)
        /\ \A n \in Nodes :
              LET f == bill_owners[n].financials
                  I == KeyRows(NodeKey(n))
              IN  /\ f.total_payout = IndexSum(I, "Sum of Total payout")
                  /\ f.final_net_payout = IndexSum(I, "Final Net Payout with Agg Fee")
                  /\ f.ad_fees = IndexSum(I, "ad_fee")

\* two rows of one owner in two periods were aggregated into two nodes
C8_Witness ==
    /\ Aggregated
    /\ Len(df.rows) = 2
    /\ Len(bill_owners) = 2
    /\ bill_owners[1].name = bill_owners[2].name
    /\ bill_owners[1].period # bill_owners[2].period
    /\ bill_owners[1].financials.total_payout # bill_owners[2].financials.total_payout

\* the additional fee of a row of a table the validator passed: a number or a
\* numeric string
FeeOf(i) == df.rows[i]["Additional Fees"].v

\* C9: the aggregator_fee of a node is the maximum of the 'Additional Fees' of
\* the rows of its group, not their sum.
C9_AggregatorFeeIsMax ==
    Aggregated =>
        \A n \in Nodes :
            LET fee == bill_owners[n].financials.aggregator_fee
                I   == KeyRows(NodeKey(n))
            IN  /\ \A i \in I : FeeOf(i) <= fee
                /\ \E i \in I : FeeOf(i) = fee

\* two rows of one group with a fee of 5 each gave an aggregator_fee of 5
C9_Witness ==
    /\ Aggregated
    /\ Len(df.rows) = 2
    /\ Len(bill_owners) = 1
    /\ FeeOf(1) = 5 /\ FeeOf(2) = 5
    /\ KeyOf(1) = KeyOf(2)
    /\ bill_owners[1].financials.aggregator_fee = 5
    /\ bill_owners[1].financials.total_payout = 40

\* the (restaurant, platform) pairs of a group; a row with a missing restaurant
\* or platform cell carries no pair
PairOf(i) == << df.rows[i]["Restaurant"], df.rows[i]["Platform_x"] >>

GroupPairs(key) ==
    { PairOf(i) : i \in { j \in KeyRows(key) : None \notin Range(PairOf(j)) } }

PairRows(key, pair) == { i \in KeyRows(key) : PairOf(i) = pair }

\* the (restaurant, platform, breakdown) entries of a node
Breakdowns(n) ==
    UNION { { << r, p >> : p \in DOMAIN bill_owners[n].restaurants[r].platforms } :
              r \in DOMAIN bill_owners[n].restaurants }

NodePlatforms(n) ==
    SumSeq([r \in DOMAIN bill_owners[n].restaurants |->
               Len(bill_owners[n].restaurants[r].platforms)])

\* the whole number of orders of a sum kept in halves
WholeOrders(halves) == CHOOSE k \in 0..halves : 2 * k <= halves /\ halves < 2 * k + 2

\* C10: a node has exactly one PlatformBreakdown for each (restaurant, platform)
\* pair of the rows of its group, whose orders (as an integer), gross_pay,
\* taxes_transferred, taxes_platform, subtotal, marketplace_fee and net_pay are
\* the sums of their columns over exactly the rows of that owner, period,
\* restaurant and platform.
C10_OneBreakdownPerPairWithSums ==
    Aggregated =>
        \A n \in Nodes :
            LET key == NodeKey(n)
                node == bill_owners[n]
            IN  /\ { << node.restaurants[e[1]].name,
                        node.restaurants[e[1]].platforms[e[2]].platform >> :
                          e \in Breakdowns(n) } = GroupPairs(key)
                /\ NodePlatforms(n) = Cardinality(GroupPairs(key))
                /\ \A e \in Breakdowns(n) :
                      LET b == node.restaurants[e[1]].platforms[e[2]]
                          I == PairRows(key, << node.restaurants[e[1]].name, b.platform >>)
                      IN  /\ b.orders = WholeOrders(IndexSum(I, "Sum of Order Count"))
                          /\ b.gross_pay = IndexSum(I, "Sum of Total payout")
                          /\ b.taxes_transferred = IndexSum(I, "Sum of Passed on Tax")
                          /\ b.taxes_platform
                                = IndexSum(I, "Sum of Marketplace Facilitator Tax")
                          /\ b.subtotal = IndexSum(I, "Sum of Sales (excl. tax)")
                          /\ b.marketplace_fee = IndexSum(I, "Sum of Marketplace fee")
                          /\ b.net_pay = IndexSum(I, "Final Net Payout with Agg Fee")

\* two rows of 2.5 orders of one restaurant and platform gave one breakdown of
\* 5 orders and a gross pay of 60
C10_Witness ==
    /\ Aggregated
    /\ Len(df.rows) = 2
    /\ df.rows[1]["Sum of Order Count"].v = 5
    /\ df.rows[2]["Sum of Order Count"].v = 5
    /\ Len(bill_owners) = 1
    /\ Len(bill_owners[1].restaurants) = 1
    /\ Len(bill_owners[1].restaurants[1].platforms) = 1
    /\ bill_owners[1].restaurants[1].platforms[1].orders = 5
    /\ bill_owners[1].restaurants[1].platforms[1].gross_pay = 60

\* the position of the first row that carries the key, the restaurant of a
\* key, the platform of a restaurant of a key
FirstRow(I) == CHOOSE i \in I : \A j \in I : i <= j

FirstOfKey(key) == FirstRow(KeyRows(key))

FirstOfRestaurant(key, restaurant) ==
    FirstRow({ i \in KeyRows(key) : df.rows[i]["Restaurant"] = restaurant })

FirstOfPlatform(key, restaurant, platform) ==
    FirstRow({ i \in KeyRows(key) : /\ df.rows[i]["Restaurant"] = restaurant
                                    /\ df.rows[i]["Platform_x"] = platform })

\* C11 (as claimed): the nodes come in the order in which their keys first
\* occur in the table, and likewise the restaurants of a node and the platforms
\* of a restaurant.
C11_FirstEncounteredOrder ==
    Aggregated =>
        /\ \A n, m \in Nodes :
              n < m => FirstOfKey(NodeKey(n)) < FirstOfKey(NodeKey(m))
        /\ \A n \in Nodes :
              LET rs == bill_owners[n].restaurants
              IN  /\ \A a, b \in DOMAIN rs :
                        a < b => FirstOfRestaurant(NodeKey(n), rs[a].name)
                                    < FirstOfRestaurant(NodeKey(n), rs[b].name)
                  /\ \A a \in DOMAIN rs : \A x, y \in DOMAIN rs[a].platforms :
                        x < y =>
                            FirstOfPlatform(NodeKey(n), rs[a].name, rs[a].platforms[x].platform)
                              < FirstOfPlatform(NodeKey(n), rs[a].name,
                                                rs[a].platforms[y].platform)

\* C11 (amended): the nodes come in ascending order of their (owner, period)
\* key, the restaurants of a node in ascending order of their name and the
\* platforms of a restaurant in ascending order of their name, whatever the
\* order of the rows.
C11_SortedOrder ==
    Aggregated =>
        /\ \A n, m \in Nodes : n < m => PairLess(NodeKey(n), NodeKey(m))
        /\ \A n \in Nodes :
              LET rs == bill_owners[n].restaurants
              IN  /\ \A a, b \in DOMAIN rs : a < b => Rank(rs[a].name) < Rank(rs[b].name)
                  /\ \A a \in DOMAIN rs : \A x, y \in DOMAIN rs[a].platforms :
                        x < y => Rank(rs[a].platforms[x].platform)
                                    < Rank(rs[a].platforms[y].platform)

\* the rows of owner B come before those of owner A and A's node comes first
C11_Witness ==
    /\ Aggregated
    /\ Len(df.rows) = 2
    /\ df.rows[1]["BillOwnerName"] = "B"
    /\ df.rows[2]["BillOwnerName"] = "A"
    /\ Len(bill_owners) = 2
    /\ bill_owners[1].name = "A"
    /\ bill_owners[2].name = "B"

\* the restaurants of the rows of a key
GroupRestaurants(key) ==
    { df.rows[i]["Restaurant"] : i \in KeyRows(key) } \ {None}

\* the restaurant has no row with a platform in the group
NoPlatformRows(key, restaurant) ==
    \A i \in KeyRows(key) :
        df.rows[i]["Restaurant"] = restaurant => df.rows[i]["Platform_x"] = None

\* the rows of the rendered breakdown table that belong to the e-th restaurant
\* entry of node n when it has no platform
PlaceholderRows(n, restaurant) ==
    LET rows == prepare_restaurant_breakdown(bill_owners[n].restaurants).rows
    IN  { x \in DOMAIN rows : rows[x].name = restaurant /\ rows[x].platform = "-" }

\* C12: a restaurant of a group none of whose rows has a platform is still an
\* entry of the node (with no platform breakdown), and the rendered table has
\* one row for it whose cells are the placeholders of zero.
C12_EmptyRestaurantEmitted ==
    Aggregated =>
        \A n \in Nodes :
            LET rs == bill_owners[n].restaurants
                table == prepare_restaurant_breakdown(rs)
            IN  /\ { rs[a].name : a \in DOMAIN rs } = GroupRestaurants(NodeKey(n))
                /\ Len(rs) = Cardinality(GroupRestaurants(NodeKey(n)))
                /\ \A a \in DOMAIN rs :
                      NoPlatformRows(NodeKey(n), rs[a].name) =>
                          /\ rs[a].platforms = << >>
                          /\ Cardinality(PlaceholderRows(n, rs[a].name)) = 1
                          /\ \A x \in PlaceholderRows(n, rs[a].name) :
                                /\ table.rows[x].orders = OrdersCell(0)
                                /\ table.rows[x].gross_pay = format_currency(0)
                                /\ table.rows[x].net_pay = format_currency(0)
                                /\ table.rows[x].subtotal = format_currency(0)

\* restaurant R1 has its only row without platform beside R2 with a platform:
\* both are entries of the node and the table has a row for each
C12_Witness ==
    /\ Aggregated
    /\ Len(df.rows) = 2
    /\ df.rows[1]["Restaurant"] = "R2" /\ df.rows[1]["Platform_x"] = "DoorDash"
    /\ df.rows[2]["Restaurant"] = "R1" /\ df.rows[2]["Platform_x"] = None
    /\ Len(bill_owners) = 1
    /\ Len(bill_owners[1].restaurants) = 2
    /\ bill_owners[1].restaurants[1].platforms = << >>
    /\ Len(prepare_restaurant_breakdown(bill_owners[1].restaurants).rows) = 2

\* the cells of the monetary columns of the table
MonetaryCells ==
    { df.rows[i][c] : i \in RowIndices, c \in MonetaryColumnsOf(df) }

\* C13 (as claimed): the normalizer never raises: clean_currency returns a
\* number for every cell, and InvoiceProcessor(df), which applies it to the
\* monetary columns, does not end in a ValueError of the normalizer.
C13_NormalizerNeverRaises ==
    Processed =>
        /\ \A x \in MonetaryCells : clean_currency(x).ok
        /\ ~CleanRaises(df)

\* C14: normalizing a normalized value returns the same value: for every cell
\* on which clean_currency returns, clean_currency of its result is that
\* result, a missing or empty cell gives 0, and cleaning the cleaned table
\* changes nothing.
C14_NormalizeIdempotent ==
    Processed =>
        /\ \A x \in MonetaryCells :
              LET r == clean_currency(x)
              IN  r.ok => /\ clean_currency(NumCell(r.v)) = r
                          /\ (x.k \in {"none", "empty", "sym"} => r.v = 0)
                          /\ (x.k \in {"num", "numstr", "curstr"} => r.v = x.v)
        /\ ~CleanRaises(df) =>
              clean_monetary_columns(clean_monetary_columns(df))
                  = clean_monetary_columns(df)

\* a table with a fee of "$1,234" and an empty fee was normalized to 1234 and 0
C14_Witness ==
    /\ Processed
    /\ Len(df.rows) = 2
    /\ "Additional Fees" \in df.columns
    /\ df.rows[1]["Additional Fees"] = [k |-> "curstr", v |-> 1234]
    /\ df.rows[2]["Additional Fees"].k = "empty"
    /\ clean_monetary_columns(df).rows[1]["Additional Fees"] = NumCell(1234)
    /\ clean_monetary_columns(df).rows[2]["Additional Fees"] = NumCell(0)
    /\ outcome # "ValueError"

----------------------------------------------------------------------------
(* main.py: the /validate and /generate-pdfs handlers *)

\* the requests the pipeline is run on: the table the sheet holds (none has a
\* missing 'Order Week' cell) and the request's max_pdfs (-1 for all)
PipelineRequests ==
    { [table    |-> [columns |-> AllColumns,
                     rows    |-> << Row(RegularKey, Regular),
                                    Row(<< "A", "W2", "R1", "DoorDash" >>, Second) >>],
       max_pdfs |-> -1],
      [table    |-> [columns |-> AllColumns,
                     rows    |-> << Row(RegularKey, Regular),
                                    Row(<< "A", "W2", "R1", "DoorDash" >>, Second) >>],
       max_pdfs |-> 0],
      [table    |-> [columns |-> AllColumns,
                     rows    |-> << Row(<< " ", "W1", "R1", "DoorDash" >>, Regular) >>],
       max_pdfs |-> -1],
      [table    |-> [columns |-> AllColumns,
                     rows    |-> << Row(RegularKey, [Regular EXCEPT !.orders = -2]) >>],
       max_pdfs |-> -1],
      [table    |-> [columns |-> AllColumns \ {"Restaurant"},
                     rows    |-> << Restrict(Row(RegularKey, Regular),
                                             AllColumns \ {"Restaurant"}) >>],
       max_pdfs |-> -1] }

PipelineTables == { q.table : q \in PipelineRequests }

\* the columns the data summary of /validate reads
SummaryColumns ==
    { "BillOwnerName", "Order Week", "Platform_x", "Restaurant",
      "Sum of Order Count", "Sum of Total payout" }

\* mutant: the table is aggregated whatever the validator returned
ShouldProcess_Always(validation_passed) == TRUE

\* if validation_passed:
ShouldProcess(validation_passed) == validation_passed

\* mutant: only a validation that passed is stored
stored_entry_OnlyPassed(validation_passed, max_pdfs) ==
    IF validation_passed
    THEN [present |-> TRUE, passed |-> TRUE, data_none |-> TRUE,
          bill_owners |-> << >>, max_pdfs |-> max_pdfs]
    ELSE Absent

\* validation_store[validation_id] = {"passed": ..., "data": None, "request": ...}
stored_entry(validation_passed, max_pdfs) ==
    [present |-> TRUE, passed |-> validation_passed, data_none |-> TRUE,
     bill_owners |-> << >>, max_pdfs |-> max_pdfs]

\* the validator and the processor on each table of the pipeline
Validation == [t \in PipelineTables |-> validate_dataframe(t)]

Aggregation == [t \in PipelineTables |-> process_invoices(t)]

\* the body of validate_data for table t fetched under validation_id: the store
\* it leaves and the status of the response
validate_data_handler(store, validation_id, t, max_pdfs, source_ok) ==
    IF ~source_ok \/ ~(SummaryColumns \subseteq t.columns)
    THEN [store |-> store, status |-> 500]
    ELSE LET validation_passed == Validation[t].passed
             stored == [store EXCEPT ![validation_id] =
                           stored_entry(validation_passed, max_pdfs)]
         IN  IF ~ShouldProcess(validation_passed)
             THEN [store |-> stored, status |-> 200]
             ELSE IF Aggregation[t].outcome # "tree"
             THEN [store |-> stored, status |-> 500]
             ELSE [store  |-> [stored EXCEPT ![validation_id].data_none = FALSE,
                                             ![validation_id].bill_owners =
                                                 Aggregation[t].bill_owners],
                   status |-> 200]

\* POST /validate: the handler has no await and runs to its end in one step
ValidateData ==
    /\ pc = "pipeline"
    /\ \E q \in PipelineRequests, source_ok \in BOOLEAN :
          validation_store' =
              validate_data_handler(validation_store, now, q.table, q.max_pdfs,
                                    source_ok).store
    /\ UNCHANGED <<tableVars, now, calls, output_dirs, otherVars>>

\* a second passes
Tick ==
    /\ pc = "pipeline"
    /\ now < MaxClock
    /\ now' = now + 1
    /\ UNCHANGED <<tableVars, validation_store, calls, output_dirs, otherVars>>

\* bill_owners[:max_pdfs]
Slice(list, max_pdfs) ==
    IF max_pdfs = -1 THEN list
    ELSE SubSeq(list, 1, IF max_pdfs < Len(list) THEN max_pdfs ELSE Len(list))

\* generate_pdfs up to the await of the batch: the call goes on to render
\* bill_owners (pc "rendering"), or has ended (pc "idle") in an exception.  An
\* HTTPException raised inside the try block is caught by its except Exception
\* clause, which removes the output directory if the call made it and
\* answers 500.
generate_start(store, validation_id) ==
    LET entry == store[validation_id]
        ended(reason, made_dir) ==
            [pc |-> "idle", status |-> 500, reason |-> reason, made_dir |-> made_dir,
             bill_owners |-> << >>]
    IN  IF ~entry.present THEN ended("404 Validation ID not found", FALSE)
        ELSE IF ~entry.passed THEN ended("400 Data validation failed", FALSE)
        ELSE IF entry.data_none THEN ended("TypeError", TRUE)
        ELSE [pc |-> "rendering", status |-> 0, reason |-> "", made_dir |-> TRUE,
              bill_owners |-> Slice(entry.bill_owners, entry.max_pdfs)]

\* POST /generate-pdfs/{validation_id}, up to the await of the batch
GenerateStart(c, validation_id) ==
    /\ pc = "pipeline"
    /\ calls[c].pc = "idle"
    /\ \A b \in 1..(c - 1) : calls[b].pc # "idle"
    /\ LET r == generate_start(validation_store, validation_id)
       IN  /\ calls' = [calls EXCEPT ![c] =
                           [pc |-> r.pc,
                            validation_id |-> IF r.pc = "idle" THEN 0 ELSE validation_id,
                            bill_owners |-> r.bill_owners]]
           /\ output_dirs' =
                 IF r.pc = "rendering" THEN output_dirs \cup {validation_id}
                 ELSE IF r.made_dir THEN output_dirs \ {validation_id}
                 ELSE output_dirs
    /\ UNCHANGED <<tableVars, validation_store, now, otherVars>>

\* the paths generate_pdfs_batch returns when the entries at the positions ok
\* render and the others raise: one path for each rendered entry, in order
generate_pdfs_batch(data_list, ok) ==
    LET rendered == SelectSeq([i \in DOMAIN data_list |-> i], LAMBDA i : i \in ok)
    IN  [j \in DOMAIN rendered |-> data_list[rendered[j]].name]

\* mutant: an empty list of paths is archived and returned like any other
generate_finish_EmptyArchive(files, dir_exists) ==
    IF ~dir_exists
    THEN [pc |-> "idle", status |-> 500, reason |-> "FileNotFoundError",
          archive |-> FALSE]
    ELSE [pc |-> "responded", status |-> 200, reason |-> "", archive |-> TRUE]

\* generate_pdfs after the await of the batch, which returned the list files:
\* an empty list is an exception; so is writing the archive into an output
\* directory that is gone (removed by another call for the same validation_id);
\* otherwise the archive is written, cleanup is added as a background task and
\* the archive is returned.  An exception is answered 500 by the except clause,
\* which removes the output directory if it exists.
generate_finish(files, dir_exists) ==
    IF files = << >>
    THEN [pc |-> "idle", status |-> 500,
          reason |-> "No PDFs were generated successfully", archive |-> FALSE]
    ELSE IF ~dir_exists
    THEN [pc |-> "idle", status |-> 500, reason |-> "FileNotFoundError",
          archive |-> FALSE]
    ELSE [pc |-> "responded", status |-> 200, reason |-> "", archive |-> TRUE]

\* the batch returns and generate_pdfs runs to its response
GenerateFinish(c) ==
    /\ pc = "pipeline"
    /\ calls[c].pc = "rendering"
    /\ \E ok \in SUBSET DOMAIN calls[c].bill_owners :
          LET r == generate_finish(generate_pdfs_batch(calls[c].bill_owners, ok),
                                   calls[c].validation_id \in output_dirs)
          IN  IF r.pc = "idle"
              THEN /\ calls' = [calls EXCEPT ![c] = IdleCall]
                   /\ output_dirs' = output_dirs \ {calls[c].validation_id}
              ELSE /\ calls' = [calls EXCEPT ![c].pc = "responded",
                                             ![c].bill_owners = << >>]
                   /\ UNCHANGED output_dirs
    /\ UNCHANGED <<tableVars, validation_store, now, otherVars>>

\* mutant: the background task forgets the output directory
Cleanup_KeepDirectory(c) ==
    /\ pc = "pipeline"
    /\ calls[c].pc = "responded"
    /\ validation_store' = [validation_store EXCEPT ![calls[c].validation_id] = Absent]
    /\ calls' = [calls EXCEPT ![c] = IdleCall]
    /\ UNCHANGED <<tableVars, now, output_dirs, otherVars>>

\* the background task cleanup() of a call that returned its archive
Cleanup(c) ==
    /\ pc = "pipeline"
    /\ calls[c].pc = "responded"
    /\ output_dirs' = output_dirs \ {calls[c].validation_id}
    /\ validation_store' = [validation_store EXCEPT ![calls[c].validation_id] = Absent]
    /\ calls' = [calls EXCEPT ![c] = IdleCall]
    /\ UNCHANGED <<tableVars, now, otherVars>>

InitServer ==
    /\ df = [columns |-> AllColumns, rows |-> << >>]
    /\ pc = "pipeline"
    /\ passed = FALSE
    /\ errors = << >>
    /\ warnings = << >>
    /\ outcome = "none"
    /\ bill_owners = << >>
    /\ InitPipeline
    /\ OthersIdle

NextServer ==
    \/ ValidateData
    \/ Tick
    \/ \E c \in 1..MaxCalls, v \in ValidationIds : GenerateStart(c, v)
    \/ \E c \in 1..MaxCalls : GenerateFinish(c)
    \/ \E c \in 1..MaxCalls : Cleanup(c)

SpecServer == InitServer /\ [][NextServer]_vars

\* the entries that /validate leaves for the tables that pass the validator
\* and are stored with max_pdfs = -1: one with its tree, one without data
PassedEntries ==
    { validate_data_handler([v \in ValidationIds |-> Absent], 0, q.table,
                            q.max_pdfs, TRUE).store[0] :
        q \in { q \in PipelineRequests :
                  /\ q.max_pdfs = -1
                  /\ SummaryColumns \subseteq q.table.columns
                  /\ Validation[q.table].passed } }

\* the generation calls alone, on a store that validation has filled
InitGenerate ==
    /\ df = [columns |-> AllColumns, rows |-> << >>]
    /\ pc = "pipeline"
    /\ passed = FALSE
    /\ errors = << >>
    /\ warnings = << >>
    /\ outcome = "none"
    /\ bill_owners = << >>
    /\ validation_store \in [ValidationIds -> {Absent} \cup PassedEntries]
    /\ now = 0
    /\ calls = [c \in 1..MaxCalls |-> IdleCall]
    /\ output_dirs = {}
    /\ OthersIdle

NextGenerate ==
    \/ \E c \in 1..MaxCalls, v \in ValidationIds : GenerateStart(c, v)
    \/ \E c \in 1..MaxCalls : GenerateFinish(c)
    \/ \E c \in 1..MaxCalls : Cleanup(c)

\* the event loop resumes a call whose batch has returned and runs the
\* background task of a response that was sent
SpecGenerate ==
    /\ InitGenerate
    /\ [][NextGenerate]_vars
    /\ \A c \in 1..MaxCalls :
          WF_vars(GenerateFinish(c)) /\ WF_vars(Cleanup(c))

----------------------------------------------------------------------------
(* Properties of the pipeline *)

FailedRun(v) == validation_store[v].present /\ ~validation_store[v].passed

\* C7: validation is a gate: a stored run whose validation returned
\* passed = False holds no aggregated data, and a generation call for it ends
\* in an error before any output directory is made or document rendered.
C7_ValidationGate ==
    \A v \in ValidationIds :
        FailedRun(v) =>
            /\ validation_store[v].data_none
            /\ validation_store[v].bill_owners = << >>
            /\ generate_start(validation_store, v).pc = "idle"
            /\ generate_start(validation_store, v).status = 500
            /\ ~generate_start(validation_store, v).made_dir
            /\ generate_start(validation_store, v).bill_owners = << >>

\* a failed run is stored beside a passed one that a call is rendering
C7_Witness ==
    \E v, w \in ValidationIds :
        /\ FailedRun(v)
        /\ validation_store[v].data_none
        /\ generate_start(validation_store, v).reason = "400 Data validation failed"
        /\ \E c \in 1..MaxCalls : calls[c].pc = "rendering" /\ calls[c].validation_id = w
        /\ w # v

----------------------------------------------------------------------------
(* Reconciliation: utils/store_validator.py and utils/store_id_comparison.py. *)
(* A restaurant name is a sequence of characters, so that cleaning and the     *)
(* similarity ratio are computed on its characters.  The lists the code makes  *)
(* out of Python sets (list(matched), the pairs of potential matches) are      *)
(* kept as sets: their order is the iteration order of a set.                  *)

Rep(c, n) == [i \in 1..n |-> c]

\* str.lower() on the characters of the model
LowerOf == [c \in {"J", "T"} |-> IF c = "J" THEN "j" ELSE "t"]

str_lower(s) == [i \in DOMAIN s |-> IF s[i] \in DOMAIN LowerOf THEN LowerOf[s[i]] ELSE s[i]]

\* the characters of the model matched by [^\w\s]
NonWord == {"'", "!"}

\* str.replace(r'[^\w\s]', '', regex=True)
str_replace(s) == SelectSeq(s, LAMBDA c : c \notin NonWord)

\* str.strip()
RECURSIVE str_strip(_)
str_strip(s) ==
    IF s = << >> THEN s
    ELSE IF Head(s) = " " THEN str_strip(Tail(s))
    ELSE IF s[Len(s)] = " " THEN str_strip(SubSeq(s, 1, Len(s) - 1))
    ELSE s

\* StoreValidator._clean_names
_clean_names(names) ==
    { str_strip(str_replace(str_lower(names[i]))) : i \in DOMAIN names }

\* one row of the longest-common-subsequence table of s1 against the
\* character c, from the row before it: cell i is the larger of prev[i] and of
\* 1 + prev[k - 1] over the positions k <= i of c in s1
LcsRow(s1, c, prev) ==
    LET cell(i) ==
            LET C == {prev[i]} \cup
                     { (IF k = 1 THEN 0 ELSE prev[k - 1]) + 1 :
                          k \in { k \in 1..i : s1[k] = c } }
            IN  CHOOSE m \in C : \A o \in C : o <= m
    IN  SubSeq([i \in 1..Len(s1) |-> cell(i)], 1, Len(s1))

\* the last row of the table, from the row of the first j - 1 characters of s2
RECURSIVE LcsTable(_, _, _, _)
LcsTable(s1, s2, j, prev) ==
    IF j > Len(s2) THEN prev
    ELSE LcsTable(s1, s2, j + 1, LcsRow(s1, s2[j], prev))

\* the length of the longest common prefix and of the longest common suffix
common_prefix(s1, s2) ==
    LET n == IF Len(s1) < Len(s2) THEN Len(s1) ELSE Len(s2)
        K == { k \in 0..n : \A i \in 1..k : s1[i] = s2[i] }
    IN  CHOOSE k \in K : \A j \in K : j <= k

common_suffix(s1, s2) ==
    LET n == IF Len(s1) < Len(s2) THEN Len(s1) ELSE Len(s2)
        K == { k \in 0..n : \A i \in 0..(k - 1) : s1[Len(s1) - i] = s2[Len(s2) - i] }
    IN  CHOOSE k \in K : \A j \in K : j <= k

\* the length of a longest common subsequence: the common prefix and the
\* common suffix belong to it, the table is computed on what lies between
lcs(s1, s2) ==
    LET p  == common_prefix(s1, s2)
        r1 == SubSeq(s1, p + 1, Len(s1))
        r2 == SubSeq(s2, p + 1, Len(s2))
        q  == common_suffix(r1, r2)
        m1 == SubSeq(r1, 1, Len(r1) - q)
        m2 == SubSeq(r2, 1, Len(r2) - q)
        long  == IF Len(m1) >= Len(m2) THEN m1 ELSE m2
        short == IF Len(m1) >= Len(m2) THEN m2 ELSE m1
    IN  p + q + (IF short = << >> THEN 0
                 ELSE LcsTable(long, short, 1, Rep(0, Len(long)))[Len(long)])

\* rapidfuzz fuzz.ratio(s1, s2), a percentage, as the fraction num / den:
\* 100 * 2 * lcs / (len(s1) + len(s2)), and 100 for two empty strings
fuzz_ratio(s1, s2) ==
    IF Len(s1) + Len(s2) = 0 THEN [num |-> 100, den |-> 1]
    ELSE [num |-> 200 * lcs(s1, s2), den |-> Len(s1) + Len(s2)]

\* fuzzy_threshold: float = 0.85, in hundredths
fuzzy_threshold == 85

\* mutant: a pair exactly at the threshold is left out
_find_potential_matches_Strict(set1, set2, threshold) ==
    { pair \in set1 \X set2 :
        LET ratio == fuzz_ratio(pair[1], pair[2])
        IN  ratio.num > threshold * ratio.den }

\* StoreValidator._find_potential_matches: ratio / 100 >= threshold
_find_potential_matches(set1, set2, threshold) ==
    { pair \in set1 \X set2 :
        LET ratio == fuzz_ratio(pair[1], pair[2])
        IN  ratio.num >= threshold * ratio.den }

Column(d, col) == [i \in DOMAIN d |-> d[i][col]]

\* round(len(matched) / len(invoice_stores) * 100, 2), in hundredths of a percent
match_percentage(matched_count, total) ==
    (2 * 10000 * matched_count + total) \div (2 * total)

\* matched = set(invoice_stores) & set(master_stores)
exact_matches(invoice_stores, master_stores) == invoice_stores \cap master_stores

\* missing_in_master = set(invoice_stores) - set(master_stores)
names_missing_in_master(invoice_stores, master_stores) == invoice_stores \ master_stores

\* mutant: the difference is taken the same way round as for the master
names_missing_in_invoice_SameWay(invoice_stores, master_stores) ==
    invoice_stores \ master_stores

\* missing_in_invoice = set(master_stores) - set(invoice_stores)
names_missing_in_invoice(invoice_stores, master_stores) == master_stores \ invoice_stores

\* StoreValidator.compare_stores: the report, or the ZeroDivisionError of the
\* match percentage when the invoice table has no name
compare_stores(invoice, master, threshold) ==
    LET invoice_stores == _clean_names(Column(invoice, "Restaurant"))
        master_stores  == _clean_names(Column(master, "RestaurantName"))
        matched            == exact_matches(invoice_stores, master_stores)
        missing_in_master  == names_missing_in_master(invoice_stores, master_stores)
        missing_in_invoice == names_missing_in_invoice(invoice_stores, master_stores)
        potential_matches  ==
            _find_potential_matches(missing_in_master, missing_in_invoice, threshold)
    IN  IF Cardinality(invoice_stores) = 0
        THEN [outcome |-> "ZeroDivisionError"]
        ELSE [outcome            |-> "report",
              matched_stores     |-> matched,
              missing_in_master  |-> missing_in_master,
              missing_in_invoice |-> missing_in_invoice,
              potential_matches  |-> potential_matches,
              summary |->
                  [matched_count            |-> Cardinality(matched),
                   missing_in_master_count  |-> Cardinality(missing_in_master),
                   missing_in_invoice_count |-> Cardinality(missing_in_invoice),
                   potential_matches_count  |-> Cardinality(potential_matches),
                   total_invoice_stores     |-> Cardinality(invoice_stores),
                   total_master_stores      |-> Cardinality(master_stores),
                   match_percentage         |->
                       match_percentage(Cardinality(matched),
                                        Cardinality(invoice_stores))]]

\* str(x) of a store identifier
py_str(x) == IF x = None THEN "None" ELSE x

\* mutant: rows marked 'False' are taken for matched too
IsMatchedStatus_WithFalse(status) == status \in {"Matched", "True", "False"}

\* (status == 'Matched') | (status == 'True')
IsMatchedStatus(status) == status \in {"Matched", "True"}

issue_data(store, issue) ==
    [store_id       |-> py_str(store["Store ID"]),
     name           |-> store["Restaurant"],
     platform       |-> py_str(store["Platform"]),
     deposit_status |-> py_str(store["Deposit_ID_Match_Status"]),
     bill_owner     |-> py_str(store["BillOwnerName"]),
     issue          |-> issue]

\* the body of the loop over matched_stores: the issues of one row, in the
\* order in which they are appended
StoreIssues(store, master) ==
    (IF store["Store ID"] = None \/ store["Store ID"] = "N/A"
     THEN << issue_data(store, "Missing Store ID") >> ELSE << >>)
    \o
    (IF store["Store ID"] \notin Range(Column(master, "Store ID"))
     THEN << issue_data(store, "Not in Master Sheet") >> ELSE << >>)

CountRows(d, test(_)) == Len(SelectSeq(d, test))

\* StoreIDComparison.analyze_deposit_match_status on the two tables fetched
analyze_deposit_match_status(invoice_data, master_data) ==
    LET status_of(store) == store["Deposit_ID_Match_Status"]
        matched_stores == SelectSeq(invoice_data, LAMBDA s : IsMatchedStatus(status_of(s)))
        unmatched_stores ==
            SelectSeq(invoice_data, LAMBDA s : ~IsMatchedStatus(status_of(s)))
        stores_requiring_verification ==
            ConcatAll([k \in DOMAIN matched_stores |->
                          StoreIssues(matched_stores[k], master_data)])
        platforms == { matched_stores[k]["Platform"] : k \in DOMAIN matched_stores }
        platform_distribution ==
            [q \in platforms |->
                CountRows(matched_stores, LAMBDA s : s["Platform"] = q)]
    IN  [outcome         |-> "report",
         status_counts   |->
             [st \in Range(Column(invoice_data, "Deposit_ID_Match_Status")) |->
                 CountRows(invoice_data, LAMBDA s : status_of(s) = st)],
         matched_count   |-> Len(matched_stores),
         unmatched_count |-> Len(unmatched_stores),
         false_count     |-> CountRows(invoice_data, LAMBDA s : status_of(s) = "False"),
         total_stores    |-> Len(invoice_data),
         total_matched   |-> Len(matched_stores),
         platform_distribution |-> platform_distribution,
         stores_requiring_verification |-> stores_requiring_verification,
         validation_issues |->
             [missing_store_ids |->
                  SelectSeq(stores_requiring_verification,
                            LAMBDA e : e.issue = "Missing Store ID"),
              not_in_master |->
                  SelectSeq(stores_requiring_verification,
                            LAMBDA e : e.issue = "Not in Master Sheet"),
              platform_distribution |-> platform_distribution]]

\* missing_ids = invoice_store_ids - master_store_ids
missing_store_ids(invoice_store_ids, master_store_ids) ==
    invoice_store_ids \ master_store_ids

\* StoreIDComparison.compare_store_ids on the two tables fetched; the list of
\* missing stores follows the iteration of a set and is kept as a set
compare_store_ids(invoice, master) ==
    LET invoice_ids == [k \in DOMAIN invoice |-> py_str(invoice[k]["Store ID"])]
        master_ids  == [k \in DOMAIN master |-> py_str(master[k]["Store ID"])]
        invoice_store_ids == Range(invoice_ids)
        master_store_ids  == Range(master_ids)
        missing_ids == missing_store_ids(invoice_store_ids, master_store_ids)
        first(store_id) ==
            invoice[CHOOSE k \in DOMAIN invoice :
                       /\ invoice_ids[k] = store_id
                       /\ \A j \in DOMAIN invoice : invoice_ids[j] = store_id => k <= j]
        missing_stores ==
            { [store_id        |-> store_id,
               restaurant_name |-> first(store_id)["Restaurant"],
               platform        |-> py_str(first(store_id)["Platform_x"]),
               bill_owner      |-> py_str(first(store_id)["BillOwnerName"]),
               deposit_status  |-> py_str(first(store_id)["Deposit_ID_Match_Status"])] :
                 store_id \in missing_ids }
    IN  [outcome           |-> "report",
         missing_store_ids |-> missing_stores,
         comparison_summary |->
             [total_invoice_stores |-> Cardinality(invoice_store_ids),
              total_master_stores  |-> Cardinality(master_store_ids),
              missing_store_count  |-> Cardinality(missing_stores),
              platforms            |-> Unique(Column(invoice, "Platform_x"))],
         validation_issues |-> [store_validation |-> missing_stores]]

----------------------------------------------------------------------------
(* The tables given to the reconciliation *)

\* "Joe's", "Taco", "joes ", "Tacos"
NameJoes == << "J", "o", "e", "'", "s" >>

NameTaco == << "T", "a", "c", "o" >>

NameJoesPlain == << "j", "o", "e", "s", " " >>

NameTacos == << "T", "a", "c", "o", "s" >>

\* three names of 20 characters: LongA and LongB share 17 characters in order
\* (ratio 85), LongC and LongB share 16 (ratio 80)
LongA == Rep("a", 17) \o << "b", "c", "d" >>

LongB == Rep("a", 17) \o << "x", "y", "z" >>

LongC == Rep("a", 16) \o << "b", "c", "d", "e" >>

InvoiceRow(store_id, status, name) ==
    [c \in { "Store ID", "Restaurant", "Platform", "Platform_x", "BillOwnerName",
             "Deposit_ID_Match_Status" } |->
        CASE c = "Store ID"                -> store_id
          [] c = "Restaurant"              -> name
          [] c = "Platform"                -> "DoorDash"
          [] c = "Platform_x"              -> "DoorDash"
          [] c = "BillOwnerName"           -> "A"
          [] c = "Deposit_ID_Match_Status" -> status]

\* a cell missing at the end of a sheet row is None, an empty cell is ''
InvoiceRows ==
    { InvoiceRow("S1", "Matched", NameJoes),
      InvoiceRow("S2", "Matched", NameTaco),
      InvoiceRow(None, "Matched", LongA),
      InvoiceRow("", "True", NameTaco),
      InvoiceRow(None, "False", NameJoes),
      InvoiceRow("S2", "False", LongC),
      InvoiceRow("S3", "True", LongA) }

MasterRow(store_id, name) ==
    [c \in {"Store ID", "RestaurantName"} |->
        IF c = "Store ID" THEN store_id ELSE name]

MasterRows ==
    { MasterRow("S1", NameJoesPlain),
      MasterRow("S3", LongB),
      MasterRow(None, NameTacos) }

InvoiceTables == UNION { [1..n -> InvoiceRows] : n \in 0..MaxStores }

MasterTables == UNION { [1..n -> MasterRows] : n \in 0..MaxStores }

InitReconcile ==
    /\ df = [columns |-> AllColumns, rows |-> << >>]
    /\ pc = "reconcile"
    /\ passed = FALSE
    /\ errors = << >>
    /\ warnings = << >>
    /\ outcome = "none"
    /\ bill_owners = << >>
    /\ InitPipeline
    /\ BatchIdle
    /\ invoice_df \in InvoiceTables
    /\ master_df \in MasterTables
    /\ report = NoReport
    /\ recon_pc = "loaded"

\* StoreValidator().compare_stores(invoice_df, master_df)
CompareStores ==
    /\ recon_pc = "loaded"
    /\ report' = compare_stores(invoice_df, master_df, fuzzy_threshold)
    /\ recon_pc' = "compare_stores"
    /\ UNCHANGED <<tableVars, pipelineVars, batchVars, invoice_df, master_df>>

\* StoreIDComparison().analyze_deposit_match_status(...)
AnalyzeDepositMatchStatus ==
    /\ recon_pc = "loaded"
    /\ report' = analyze_deposit_match_status(invoice_df, master_df)
    /\ recon_pc' = "analyze_deposit_match_status"
    /\ UNCHANGED <<tableVars, pipelineVars, batchVars, invoice_df, master_df>>

\* StoreIDComparison().compare_store_ids(...)
CompareStoreIds ==
    /\ recon_pc = "loaded"
    /\ report' = compare_store_ids(invoice_df, master_df)
    /\ recon_pc' = "compare_store_ids"
    /\ UNCHANGED <<tableVars, pipelineVars, batchVars, invoice_df, master_df>>

NextReconcile == CompareStores \/ AnalyzeDepositMatchStatus \/ CompareStoreIds

SpecReconcile == InitReconcile /\ [][NextReconcile]_vars

----------------------------------------------------------------------------
(* Properties of the reconciliation *)

\* the cleaned names of the two tables, computed character by character
InvoiceKeys == _clean_names(Column(invoice_df, "Restaurant"))

MasterKeys == _clean_names(Column(master_df, "RestaurantName"))

Compared == recon_pc = "compare_stores" /\ report.outcome = "report"

\* C15: matched = A /\ B, missing_in_master = A \ B, missing_in_invoice = B \ A
\* for the key sets A and B of the two tables: the three are pairwise disjoint
\* and their union is A \/ B; a report returned carries these three sets, and
\* the identifier comparison reports A \ B.
C15_ReconciliationSymmetry ==
    /\ recon_pc = "compare_stores" =>
          LET matched            == exact_matches(InvoiceKeys, MasterKeys)
              missing_in_master  == names_missing_in_master(InvoiceKeys, MasterKeys)
              missing_in_invoice == names_missing_in_invoice(InvoiceKeys, MasterKeys)
          IN  /\ \A x \in InvoiceKeys \cup MasterKeys :
                    /\ x \in matched <=> (x \in InvoiceKeys /\ x \in MasterKeys)
                    /\ x \in missing_in_master
                          <=> (x \in InvoiceKeys /\ x \notin MasterKeys)
                    /\ x \in missing_in_invoice
                          <=> (x \notin InvoiceKeys /\ x \in MasterKeys)
              /\ matched \cup missing_in_master \cup missing_in_invoice
                    = InvoiceKeys \cup MasterKeys
              /\ Cardinality(matched) + Cardinality(missing_in_master)
                    + Cardinality(missing_in_invoice)
                       = Cardinality(InvoiceKeys \cup MasterKeys)
              /\ report.outcome = "report" =>
                    /\ report.matched_stores = matched
                    /\ report.missing_in_master = missing_in_master
                    /\ report.missing_in_invoice = missing_in_invoice
    /\ recon_pc = "compare_store_ids" =>
          \A s \in { "S1", "S2", "S3", "", "None" } :
              (\E e \in report.missing_store_ids : e.store_id = s)
                  <=> /\ \E k \in DOMAIN invoice_df : py_str(invoice_df[k]["Store ID"]) = s
                      /\ \A k \in DOMAIN master_df : py_str(master_df[k]["Store ID"]) # s

\* "Joe's" matches "joes " after cleaning, "Taco" is missing in the master and
\* the long name of the master is missing in the invoice table
C15_Witness ==
    /\ Compared
    /\ report.matched_stores = { << "j", "o", "e", "s" >> }
    /\ report.missing_in_master = { << "t", "a", "c", "o" >> }
    /\ report.missing_in_invoice = { LongB }

\* C16: the potential matches are exactly the pairs of a name missing in the
\* master and a name missing in the invoice table whose similarity is at least
\* the threshold: the pair exactly at 85 is in, the pair at 80 is out, and no
\* pair has a matched name.
C16_FuzzyPairs ==
    recon_pc = "compare_stores" =>
        LET A == InvoiceKeys
            B == MasterKeys
            potential_matches ==
                _find_potential_matches(names_missing_in_master(A, B),
                                        names_missing_in_invoice(A, B),
                                        fuzzy_threshold)
        IN  /\ \A a \in A \cup B : \A b \in A \cup B :
                  << a, b >> \in potential_matches
                      <=> /\ a \in A /\ a \notin B
                          /\ b \in B /\ b \notin A
                          /\ 200 * lcs(a, b) >= 85 * (Len(a) + Len(b))
            /\ \A pair \in potential_matches :
                  /\ pair[1] \in A \cup B /\ pair[2] \in A \cup B
                  /\ pair[1] \notin A \cap B /\ pair[2] \notin A \cap B
            /\ (LongA \in A \ B /\ LongB \in B \ A)
                  => << LongA, LongB >> \in potential_matches
            /\ << LongC, LongB >> \notin potential_matches
            /\ report.outcome = "report" => report.potential_matches = potential_matches

\* the pair at exactly 85 is reported while the pair at 80, whose names are
\* both unmatched, is not
C16_Witness ==
    /\ Compared
    /\ LongC \in report.missing_in_master
    /\ LongB \in report.missing_in_invoice
    /\ << LongA, LongB >> \in report.potential_matches
    /\ << LongC, LongB >> \notin report.potential_matches

Analyzed == recon_pc = "analyze_deposit_match_status"

\* the entry of a list of issues made from row k of the invoice table
IssueOfRow(e, k) ==
    /\ e.store_id = py_str(invoice_df[k]["Store ID"])
    /\ e.name = invoice_df[k]["Restaurant"]
    /\ e.deposit_status = invoice_df[k]["Deposit_ID_Match_Status"]

Listed(issues, k) == \E n \in DOMAIN issues : IssueOfRow(issues[n], k)

\* C17: every row of the invoice table whose Store ID is null or blank is
\* listed among the missing store ids, whatever its match status, and is not
\* listed as not in the master sheet.
C17_BlankIdsReportedOnce ==
    Analyzed =>
        \A k \in DOMAIN invoice_df :
            invoice_df[k]["Store ID"] \in { None, "" } =>
                /\ Listed(report.validation_issues.missing_store_ids, k)
                /\ ~Listed(report.validation_issues.not_in_master, k)

\* the rows that the claim lists: matched by their status, identifier not
\* among the identifiers of the master
MatchedAbsent ==
    { k \in DOMAIN invoice_df :
        /\ invoice_df[k]["Deposit_ID_Match_Status"] \in { "Matched", "True" }
        /\ \A j \in DOMAIN master_df :
              master_df[j]["Store ID"] # invoice_df[k]["Store ID"] }

\* C18: a row is listed in not_in_master if and only if its status marks it as
\* matched and its Store ID is not a Store ID of the master: the list has one
\* entry for each such row, in the order of the rows, and no other entry.
C18_NotInMasterIffMatchedAbsent ==
    Analyzed =>
        LET not_in_master == report.validation_issues.not_in_master
        IN  /\ Len(not_in_master) = Cardinality(MatchedAbsent)
            /\ \A k \in MatchedAbsent : Listed(not_in_master, k)
            /\ \A n \in DOMAIN not_in_master :
                  /\ not_in_master[n].issue = "Not in Master Sheet"
                  /\ not_in_master[n].deposit_status \in { "Matched", "True" }
                  /\ \E k \in MatchedAbsent : IssueOfRow(not_in_master[n], k)
            /\ \A n \in DOMAIN not_in_master : \A o \in DOMAIN not_in_master :
                  n < o =>
                      \E k \in MatchedAbsent : \E l \in MatchedAbsent :
                          /\ k < l
                          /\ IssueOfRow(not_in_master[n], k)
                          /\ IssueOfRow(not_in_master[o], l)

\* two rows with the identifier S2, which the master does not have: the one
\* marked Matched is listed, the one marked False is not
C18_Witness ==
    /\ Analyzed
    /\ Len(invoice_df) = 2
    /\ \A k \in DOMAIN invoice_df : invoice_df[k]["Store ID"] = "S2"
    /\ invoice_df[1]["Deposit_ID_Match_Status"] = "False"
    /\ invoice_df[2]["Deposit_ID_Match_Status"] = "Matched"
    /\ master_df # << >>
    /\ Len(report.validation_issues.not_in_master) = 1
    /\ report.validation_issues.not_in_master[1].name = NameTaco

\* C19: compare_stores returns a report for every pair of tables that have the
\* name columns, a table without rows included, and never ends in an error.
C19_CompareNeverErrors ==
    recon_pc = "compare_stores" => report.outcome = "report"

----------------------------------------------------------------------------
(* Batch Document Generator: generate_batch(owner_entries, concurrency_limit) *)
(*                                                                            *)
(* The entries are rendered in consecutive waves of batch_size entries.       *)
(* Within a wave at most max_workers entries are being rendered at a time; an *)
(* entry that raises is logged and left out.  When every entry of the wave    *)
(* has ended, the paths of those that succeeded are added to the result in    *)
(* the order of submission, and after a pause the next wave starts.           *)

EntryOwners == << "A", "B", "C" >>

\* entry i of the list submitted: three owners, period after period
EntryAt(i) == [name |-> EntryOwners[((i - 1) % 3) + 1], period |-> (i - 1) \div 3]

Wave == { i \in DOMAIN owner_entries :
            batch_start <= i /\ i < batch_start + batch_size }

Rendering == { i \in DOMAIN entries : entries[i] = "Rendering" }

Succeeded == { i \in DOMAIN entries : entries[i] = "Succeeded" }

InitBatch ==
    /\ df = [columns |-> AllColumns, rows |-> << >>]
    /\ pc = "batch"
    /\ passed = FALSE
    /\ errors = << >>
    /\ warnings = << >>
    /\ outcome = "none"
    /\ bill_owners = << >>
    /\ InitPipeline
    /\ ReconIdle
    /\ \E n \in 0..MaxEntries :
          /\ owner_entries = [i \in 1..n |-> EntryAt(i)]
          /\ entries = [i \in 1..n |-> "Pending"]
    /\ batch_size \in 1..MaxBatchSize
    /\ max_workers \in 1..MaxWorkers
    /\ batch_start = 1
    /\ generated_files = << >>
    /\ batch_pc = "running"

\* mutant: every pending entry may start at once, whatever its wave and
\* however many entries are being rendered
StartRender_FanOut(i) ==
    /\ batch_pc = "running"
    /\ i \in DOMAIN entries
    /\ entries[i] = "Pending"
    /\ entries' = [entries EXCEPT ![i] = "Rendering"]
    /\ UNCHANGED <<tableVars, pipelineVars, reconVars, owner_entries, batch_size,
                   max_workers, batch_start, generated_files, batch_pc>>

\* a worker of the pool takes an entry of the wave
StartRender(i) ==
    /\ batch_pc = "running"
    /\ i \in Wave
    /\ entries[i] = "Pending"
    /\ Cardinality(Rendering) < max_workers
    /\ entries' = [entries EXCEPT ![i] = "Rendering"]
    /\ UNCHANGED <<tableVars, pipelineVars, reconVars, owner_entries, batch_size,
                   max_workers, batch_start, generated_files, batch_pc>>

\* the document of entry i is written
RenderSucceeds(i) ==
    /\ batch_pc = "running"
    /\ i \in DOMAIN entries
    /\ entries[i] = "Rendering"
    /\ entries' = [entries EXCEPT ![i] = "Succeeded"]
    /\ UNCHANGED <<tableVars, pipelineVars, reconVars, owner_entries, batch_size,
                   max_workers, batch_start, generated_files, batch_pc>>

\* mutant: the failure of an entry ends the batch
RenderFails_Abort(i) ==
    /\ batch_pc = "running"
    /\ i \in DOMAIN entries
    /\ entries[i] = "Rendering"
    /\ entries' = [entries EXCEPT ![i] = "Failed"]
    /\ batch_pc' = "returned"
    /\ UNCHANGED <<tableVars, pipelineVars, reconVars, owner_entries, batch_size,
                   max_workers, batch_start, generated_files>>

\* rendering entry i raises: the failure is logged, the entry is left out
RenderFails(i) ==
    /\ batch_pc = "running"
    /\ i \in DOMAIN entries
    /\ entries[i] = "Rendering"
    /\ entries' = [entries EXCEPT ![i] = "Failed"]
    /\ UNCHANGED <<tableVars, pipelineVars, reconVars, owner_entries, batch_size,
                   max_workers, batch_start, generated_files, batch_pc>>

\* every entry of the wave has ended: its successful paths are added to the
\* result in submission order; the batch pauses, or returns after the last wave
WaveDone ==
    /\ batch_pc = "running"
    /\ \A i \in Wave : entries[i] \in { "Succeeded", "Failed" }
    /\ generated_files' =
          generated_files \o
          generate_pdfs_batch(SubSeq(owner_entries, batch_start,
                                     batch_start + Cardinality(Wave) - 1),
                              { i - batch_start + 1 : i \in Wave \cap Succeeded })
    /\ batch_pc' = IF batch_start + batch_size > Len(owner_entries)
                   THEN "returned" ELSE "paused"
    /\ UNCHANGED <<tableVars, pipelineVars, reconVars, owner_entries, batch_size,
                   max_workers, entries, batch_start>>

\* the pause is over: the next wave starts
NextWave ==
    /\ batch_pc = "paused"
    /\ batch_start' = batch_start + batch_size
    /\ batch_pc' = "running"
    /\ UNCHANGED <<tableVars, pipelineVars, reconVars, owner_entries, batch_size,
                   max_workers, entries, generated_files>>

NextBatch ==
    \/ \E i \in 1..MaxEntries : StartRender(i)
    \/ \E i \in 1..MaxEntries : RenderSucceeds(i)
    \/ \E i \in 1..MaxEntries : RenderFails(i)
    \/ WaveDone
    \/ NextWave

SpecBatch == InitBatch /\ [][NextBatch]_vars

\* C20: the batch returns only when every entry has been rendered or has
\* failed, and its result then holds exactly one path for each entry that
\* rendered, in submission order, and none for a failed entry; until it returns
\* the batch can always take a step, whichever entries have failed.
C20_BatchPartialFailure ==
    /\ batch_pc = "returned" =>
          /\ \A i \in DOMAIN owner_entries : entries[i] \in { "Succeeded", "Failed" }
          /\ Len(generated_files) = Cardinality(Succeeded)
          /\ \A i \in Succeeded :
                \E j \in DOMAIN generated_files :
                    /\ generated_files[j] = owner_entries[i].name
                    /\ j = Cardinality({ k \in Succeeded : k <= i })
    /\ batch_pc \in { "running", "paused" } => ENABLED NextBatch

\* five entries, the third of which failed: four paths, the entries after the
\* third among them
C20_Witness ==
    /\ batch_pc = "returned"
    /\ Len(owner_entries) = 5
    /\ entries[3] = "Failed"
    /\ Succeeded = { 1, 2, 4, 5 }
    /\ generated_files = << "A", "B", "A", "B" >>

\* the wave of entry i: waves of batch_size entries, counted from 0
WaveOf(i) == (i - 1) \div batch_size

\* C21: entries are rendered wave after wave: an entry has left Pending only
\* if every entry of the waves before its own has reached Succeeded or Failed,
\* and never more than max_workers entries are in Rendering.
C21_Backpressure ==
    /\ Cardinality(Rendering) <= max_workers
    /\ \A i \in DOMAIN entries : \A j \in DOMAIN entries :
          (WaveOf(j) < WaveOf(i) /\ entries[i] # "Pending")
              => entries[j] \in { "Succeeded", "Failed" }

\* waves of two with a pool of two: both entries of the second wave are being
\* rendered after one entry of the first wave failed and the other succeeded,
\* and the fifth entry waits
C21_Witness ==
    /\ batch_pc = "running"
    /\ batch_size = 2
    /\ max_workers = 2
    /\ Len(entries) = 5
    /\ entries[1] = "Failed"
    /\ entries[2] = "Succeeded"
    /\ Rendering = { 3, 4 }
    /\ entries[5] = "Pending"

----------------------------------------------------------------------------
(* Properties of the generation calls and of the run store *)

DirectoryExists(v) == v \in output_dirs

C22_EmptyResultIsError ==
    \A c \in 1..MaxCalls :
        calls[c].pc = "rendering" =>
            LET v == calls[c].validation_id
                nothing == generate_pdfs_batch(calls[c].bill_owners, {})
                r == generate_finish(nothing, DirectoryExists(v))
            IN  /\ nothing = << >>
                /\ r.pc = "idle"
                /\ r.status = 500
                /\ ~r.archive
                /\ calls[c].bill_owners = << >> =>
                      \A ok \in SUBSET DOMAIN calls[c].bill_owners :
                          generate_pdfs_batch(calls[c].bill_owners, ok) = << >>

\* a call stored with max_pdfs = 0 is rendering no entry, beside a call that
\* renders two
C22_Witness ==
    \E c, d \in 1..MaxCalls :
        /\ calls[c].pc = "rendering"
        /\ validation_store[calls[c].validation_id].max_pdfs = 0
        /\ calls[c].bill_owners = << >>
        /\ calls[d].pc = "rendering"
        /\ Len(calls[d].bill_owners) = 2

\* C23: once a generation call for a validation_id has returned its archive,
\* a later call for it is rejected, and no two calls for one validation_id
\* return an archive.
C23_SingleUse ==
    \A c \in 1..MaxCalls :
        calls[c].pc = "responded" =>
            /\ generate_start(validation_store, calls[c].validation_id).pc = "idle"
            /\ \A d \in 1..MaxCalls \ {c} :
                  ~(/\ calls[d].pc = "responded"
                    /\ calls[d].validation_id = calls[c].validation_id)

\* C24 as claimed: the store holds an entry only for a validation that passed.
C24_EntryOnlyIfPassed ==
    \A v \in ValidationIds : validation_store[v].present => validation_store[v].passed

\* C24: a validate call stores an entry whether validation passed or not, with
\* passed as the validator returned it; an entry holds aggregated data only if
\* validation passed; a validate call that raises before the store is written
\* (the fetch, the data summary) adds no entry.
C24_EntryForEveryValidation ==
    /\ \A v \in ValidationIds :
          (validation_store[v].present /\ ~validation_store[v].data_none)
              => validation_store[v].passed
    /\ \A q \in PipelineRequests :
          LET fetched == validate_data_handler(validation_store, now, q.table,
                                               q.max_pdfs, TRUE)
              failed  == validate_data_handler(validation_store, now, q.table,
                                               q.max_pdfs, FALSE)
          IN  /\ failed.status = 500 /\ failed.store = validation_store
              /\ ~(SummaryColumns \subseteq q.table.columns) =>
                    fetched.status = 500 /\ fetched.store = validation_store
              /\ SummaryColumns \subseteq q.table.columns =>
                    /\ fetched.store[now].present
                    /\ fetched.store[now].passed = validate_dataframe(q.table).passed
                    /\ \A v \in ValidationIds \ {now} :
                          fetched.store[v] = validation_store[v]

\* the run of a validation that failed is stored beside one that passed
C24_Witness ==
    \E v, w \in ValidationIds :
        /\ FailedRun(v)
        /\ validation_store[w].present
        /\ validation_store[w].passed
        /\ ~validation_store[w].data_none

\* C26: a generation call for a validation_id that is not stored is answered
\* 404 and one for a stored run that did not pass is answered 400; neither
\* makes an output directory.
C26_NotFoundAndBadRequest ==
    \A v \in ValidationIds :
        LET r == generate_start(validation_store, v)
        IN  /\ ~validation_store[v].present => (r.status = 404 /\ ~r.made_dir)
            /\ FailedRun(v) => (r.status = 400 /\ ~r.made_dir)

\* C27: a stored run with passed = True holds aggregated data.
C27_PassedHasData ==
    \A v \in ValidationIds :
        (validation_store[v].present /\ validation_store[v].passed)
            => ~validation_store[v].data_none

\* C28: no validate call writes over the entry that another validate call
\* stored: an entry stays as it is until it is deleted.
C28_NoOverwrite ==
    [][\A v \in ValidationIds :
          (validation_store[v].present /\ validation_store'[v].present)
              => validation_store'[v] = validation_store[v]]_vars

----------------------------------------------------------------------------
(* Properties of the aggregation as a whole and of the documents' paths *)

\* the sum of gross_pay over the platform breakdowns of node n
NodeGrossPay(n) ==
    SumSeq([r \in DOMAIN bill_owners[n].restaurants |->
               SumSeq([p \in DOMAIN bill_owners[n].restaurants[r].platforms |->
                          bill_owners[n].restaurants[r].platforms[p].gross_pay])])

\* C29: no row is dropped or counted twice: the total_payout of the nodes add
\* up to the total payout of all the rows, and the gross_pay of the platform
\* breakdowns of a node add up to its total_payout, also when a period,
\* restaurant or platform cell is null.
C29_NoRowDroppedOrDoubled ==
    Aggregated =>
        /\ SumSeq([n \in Nodes |-> bill_owners[n].financials.total_payout])
              = IndexSum(RowIndices, "Sum of Total payout")
        /\ \A n \in Nodes : NodeGrossPay(n) = bill_owners[n].financials.total_payout

\* the characters of the owner names of the tables
Spell(name) == << name >>

\* invalid_chars of PDFInvoiceGenerator.sanitize_filename
invalid_chars == {"<", ">", ":", "\"", "/", "\\", "|", "?", "*"}

\* PDFInvoiceGenerator.sanitize_filename: invalid characters become '_', the
\* name is stripped, blanks become '_', and ".pdf" is appended
sanitize_filename(name) ==
    LET filename == [i \in 1..Len(name) |->
                        IF name[i] \in invalid_chars THEN "_" ELSE name[i]]
        stripped == str_strip(filename)
    IN  [i \in 1..Len(stripped) |-> IF stripped[i] = " " THEN "_" ELSE stripped[i]]
            \o << ".", "p", "d", "f" >>

\* the path PDFInvoiceGenerator.generate_pdf_for_owner writes the document of
\* owner_data to: os.path.join(output_dir, sanitize_filename(name))
generate_pdf_for_owner(output_dir, owner_data) ==
    << output_dir, sanitize_filename(Spell(owner_data.name)) >>

\* PDFInvoiceGenerator.generate_pdfs_for_all_owners: the paths written, in order
generate_pdfs_for_all_owners(output_dir, data) ==
    [n \in DOMAIN data |-> generate_pdf_for_owner(output_dir, data[n])]

\* the files in the output directory after all the nodes are rendered
DirectoryFiles ==
    { generate_pdfs_for_all_owners("generated_pdfs", bill_owners)[n] : n \in Nodes }

\* C30: distinct nodes of one result are written to distinct files: two nodes
\* get different paths, so the number of files in the output directory is the
\* number of renders.
C30_DistinctFiles ==
    Aggregated =>
        /\ \A m, n \in Nodes :
              m # n => generate_pdf_for_owner("generated_pdfs", bill_owners[m])
                          # generate_pdf_for_owner("generated_pdfs", bill_owners[n])
        /\ Cardinality(DirectoryFiles) = Len(bill_owners)

====
